---- MODULE Spec2Model ----
(***************************************************************************)
(* Verification model of the hybridnet node daemon's network-state         *)
(* reconciliation engine:                                                  *)
(*   - the CIDR-range calculator (FindSubnetExcludeIPBlocks),              *)
(*   - the policy-route manager (ensureFromPodSubnetRuleAndRoutes).        *)
(* An IPv4 address is its 32 bits as a two's complement number: the        *)
(* addresses from 128.0.0.0 on are the negative numbers, 255.255.255.255   *)
(* is -1. The IPv6 address fd00::x, 0 < x < 2^30, is the number 2^30 + x;   *)
(* the IPv4 addresses 64.0.0.0 to 127.255.255.255 are not modelled.        *)
(***************************************************************************)
EXTENDS Integers, Sequences, FiniteSets, TLC

VARIABLES
    cidr,            \* calculator input: the subnet, [ip, ones]
    includedRanges,  \* calculator input: sequence of IPRange [start, end]
    gateway,         \* calculator input: an address or Nil
    excludeIPs,      \* calculator input: sequence of addresses
    findResult,      \* what FindSubnetExcludeIPBlocks (or splitIPRangeToIPBlocks on its own) returned
                     \* and the ranges as passed (passed, args), or NoResult
    theRange,              \* an IPRange object TryAddIP is called on, or Nil
    tryArg,          \* the address handed to TryAddIP, or Nil
    tryResult,       \* what TryAddIP returned and the range it was called on, or NoTry
    rules,           \* kernel: the policy rules, in the kernel's (priority) order
    routes,          \* kernel: the routes of every table
    addrs,           \* kernel: the addresses of the host's interfaces
    prioResult,      \* what findHighestUnusedRulePriority returned, or NoPriority
    cfg,             \* the SubnetInfo of each managed subnet
    proc,            \* per subnet: the locals of its ensureFromPodSubnetRuleAndRoutes call
    calls,           \* calls started so far
    failures,        \* kernel operations that failed so far
    parallel,        \* whether the subnets' reconciliations may interleave
    lastOk,          \* the subnet whose call was the last to return, if it returned nil
    ifAddrs,         \* kernel: the address list of each interface, in the kernel's order
    interfaceToSubnetMap,  \* address manager: the tracked (interface, subnet, pod IP) entries
    owners,          \* cluster state: what getIPInstanceByAddress finds for an address
    sync,            \* the locals of the SyncAddresses call
    infoCalls,       \* the ResetInfos (Nil) and TryAddPodInfo (Some(entry)) calls made so far
    rcStatus,        \* remote cluster controller: the updateRemoteClusterStatus call and its goroutines
    ruleResult,      \* what checkIfRuleExist was asked and what it returned, or NoLookup
    webhook,         \* remote subnet webhook: the API server's Subnets and RemoteSubnets,
                     \* rsLock and the create requests
    vlanIf           \* what GenerateVlanNetIfName was asked and what it returned, or NoIfName

calcVars == <<cidr, includedRanges, gateway, excludeIPs, findResult, theRange, tryArg, tryResult>>

kernelVars == <<rules, routes, addrs>>

managerVars == <<cfg, proc, calls, failures, parallel, lastOk>>

addrVars == <<ifAddrs, interfaceToSubnetMap, owners, sync, infoCalls>>

restVars == <<rcStatus, ruleResult, webhook, vlanIf>>

vars == <<cidr, includedRanges, gateway, excludeIPs, findResult, theRange, tryArg, tryResult,
          rules, routes, addrs, prioResult,
          cfg, proc, calls, failures, parallel, lastOk,
          ifAddrs, interfaceToSubnetMap, owners, sync, infoCalls, rcStatus,
          ruleResult, webhook, vlanIf>>

\* An absent value (a nil pointer, a nil net.IP) is the empty sequence and a
\* present one a one-element sequence.
Nil == <<>>

Some(x) == <<x>>

\* findResult before the call.
NoResult == [called |-> FALSE, err |-> FALSE, blocks |-> <<>>, passed |-> <<>>, args |-> <<>>]

\* tryResult before the call.
NoTry == [called |-> FALSE, ok |-> FALSE, before |-> <<>>]

\* sync before and between the calls of SyncAddresses.
IdleSync ==
    [pc |-> "idle", err |-> FALSE, existEnhancedAddrMap |-> {}, existManualAddrSubnetMap |-> {},
     todo |-> {}, outOfDateEnhancedAddr |-> <<>>,
     \* history, for the properties:
     failed |-> FALSE, repeat |-> FALSE, startAddrs |-> <<>>,
     current |-> <<>>, answer |-> "", requested |-> {}, superseded |-> {}]

\* No address manager runs.
IdleAddr ==
    /\ ifAddrs = <<>>
    /\ interfaceToSubnetMap = {}
    /\ owners = <<>>
    /\ sync = IdleSync
    /\ infoCalls = <<>>

\* The remote clusters of the model.
Clusters == {"rc1", "rc2", "rc3"}

IdleRcStatus ==
    [pc |-> "idle", listed |-> {}, managed |-> {}, pending |-> {}, wg |-> 0,
     go |-> [c \in Clusters |-> "none"], lock |-> [c \in Clusters |-> FALSE],
     \* the managers' IsReady and the keys handed to EnqueueSubnet and
     \* EnqueueNode, in the order of the calls:
     isReady |-> [c \in Clusters |-> FALSE], enqueued |-> [c \in Clusters |-> <<>>],
     \* history, for the properties (newIsReady: what IsReady(conditions)
     \* gave in this run, if it was reached):
     listFailed |-> FALSE, ran |-> {}, panicked |-> {},
     newIsReady |-> [c \in Clusters |-> <<>>]]

\* No remote cluster controller runs.
IdleRc == rcStatus = IdleRcStatus

\* ruleResult before the call.
NoLookup == [called |-> FALSE, src |-> <<>>, table |-> 0, exist |-> FALSE, rule |-> <<>>]

\* No request has reached the webhook and the API server holds neither a
\* subnet nor a remote subnet.
IdleWebhook == [locals |-> {}, stored |-> {}, rsLock |-> <<>>, req |-> <<>>]

\* vlanIf before the call.
NoIfName == [called |-> FALSE, parentName |-> "", vlanID |-> <<>>, err |-> FALSE, name |-> <<>>]

\* No rule lookup, no webhook request and no interface naming runs.
IdleRest == ruleResult = NoLookup /\ webhook = IdleWebhook /\ vlanIf = NoIfName

\* No IPRange object is being extended.
IdleRange == theRange = Nil /\ tryArg = Nil /\ tryResult = NoTry

(***************************************************************************)
(* Addresses                                                               *)
(***************************************************************************)

\* net.IPv4len * 8
IPv4Bits == 32

\* The largest and the smallest 32-bit two's complement number.
MaxInt32 == 2147483647

MinInt32 == (0 - MaxInt32) - 1

IPv4(a, b, c, d) == (((IF a >= 128 THEN a - 256 ELSE a) * 256 + b) * 256 + c) * 256 + d

RECURSIVE Pow2(_)
Pow2(n) == IF n = 0 THEN 1 ELSE 2 * Pow2(n - 1)

\* The low n bits of ip, as a number: all of its bits for n >= 32, all but
\* the sign bit for n = 31.
LowBits(ip, n) ==
    IF n >= 32 THEN ip
    ELSE IF n = 31 THEN (IF ip < 0 THEN ip - MinInt32 ELSE ip)
    ELSE ip % Pow2(n)

\* n one bits.
HostMask(n) == IF n >= 32 THEN 0 - 1 ELSE IF n = 31 THEN MaxInt32 ELSE Pow2(n) - 1

\* net.IPv6len * 8
IPv6Bits == 128

\* The IPv6 addresses of the model, fd00::x with 0 < x < 2^30: their values
\* are above every IPv4 address's, and their low 30 bits are x.
V6Base == Pow2(30)

IPv6(x) == V6Base + x

\* ip.To4() != nil
To4(ip) == ip < V6Base

\* The bit length of the address's family.
IPLen(ip) == IF To4(ip) THEN IPv4Bits ELSE IPv6Bits

\* ip.Mask(net.CIDRMask(ones, bits)), bits the length of ip's family: the
\* address with its host bits cleared. Clearing more than the low 30 bits of
\* an IPv6 address leaves a number that is no modelled address.
MaskIP(ip, ones) == ip - LowBits(ip, IPLen(ip) - ones)

\* Address a is below address b: by value, an IPv4 address from 128.0.0.0 on
\* above the lower ones and an IPv6 address above every IPv4 address.
Below(a, b) ==
    IF To4(a) # To4(b) THEN To4(a)
    ELSE IF (a < 0) = (b < 0) THEN a < b
    ELSE b < 0

\* utils.Cmp: -1, 0 or 1 by address order.
Cmp(a, b) == IF Below(a, b) THEN -1 ELSE IF Below(b, a) THEN 1 ELSE 0

\* utils.NextIP / utils.PrevIP: the adjacent address.
NextIP(ip) == IF ip = MaxInt32 THEN MinInt32 ELSE ip + 1

PrevIP(ip) == IF ip = MinInt32 THEN MaxInt32 ELSE ip - 1

\* LastIP: the last address of a prefix (address OR host mask).
LastIP(c) == MaskIP(c.ip, c.ones) + HostMask(IPLen(c.ip) - c.ones)

\* net.IPNet.Contains: an address of the prefix's family with the prefix's
\* network number under its mask.
Contains(c, ip) == To4(ip) = To4(c.ip) /\ MaskIP(ip, c.ones) = MaskIP(c.ip, c.ones)

(***************************************************************************)
(* IPRange                                                                 *)
(***************************************************************************)

\* CreateIPRange: no object (Nil) when start > end.
CreateIPRange(start, end) ==
    IF Cmp(start, end) > 0 THEN Nil ELSE Some([start |-> start, end |-> end])

\* A TryAddIP that also swallows an address two past the end.
TryAddIPLoose(ir, ipAddr) ==
    IF ipAddr = PrevIP(ir.start)
    THEN [ok |-> TRUE, range |-> [ir EXCEPT !.start = ipAddr]]
    ELSE IF ipAddr = NextIP(ir.end) \/ ipAddr = NextIP(NextIP(ir.end))
    THEN [ok |-> TRUE, range |-> [ir EXCEPT !.end = ipAddr]]
    ELSE IF Cmp(ipAddr, ir.start) >= 0 /\ Cmp(ipAddr, ir.end) <= 0
    THEN [ok |-> TRUE, range |-> ir]
    ELSE [ok |-> FALSE, range |-> ir]

\* IPRange.TryAddIP: the success flag and the range afterwards.
TryAddIP(ir, ipAddr) ==
    IF ipAddr = PrevIP(ir.start)
    THEN [ok |-> TRUE, range |-> [ir EXCEPT !.start = ipAddr]]
    ELSE IF ipAddr = NextIP(ir.end)
    THEN [ok |-> TRUE, range |-> [ir EXCEPT !.end = ipAddr]]
    ELSE IF Cmp(ipAddr, ir.start) >= 0 /\ Cmp(ipAddr, ir.end) <= 0
    THEN [ok |-> TRUE, range |-> ir]
    ELSE [ok |-> FALSE, range |-> ir]

(***************************************************************************)
(* Splitting a range into CIDR blocks                                      *)
(***************************************************************************)

\* calculateIPLastZeroBits: the loop counts zeroBits up from its first value
\* and stops at the first mask that leaves ip unchanged; the result is the
\* number of trailing zero bits.
ShortestMask(ip, zeroBits) ==
    CHOOSE z \in zeroBits..IPLen(ip) :
        /\ MaskIP(ip, z) = ip
        /\ \A y \in zeroBits..(z - 1) : MaskIP(ip, y) # ip

calculateIPLastZeroBits(ip) == IPLen(ip) - ShortestMask(ip, 0)

\* The for loop of findTheFirstLargestCidr from prefix length p on.
RECURSIVE LargestCidrFrom(_, _, _)
LargestCidrFrom(start, end, p) ==
    LET tmpCidr == [ip |-> start, ones |-> p]
        tmpCidrEnd == LastIP(tmpCidr)
    IN  IF tmpCidrEnd = end THEN [block |-> tmpCidr, next |-> Nil]
        ELSE IF Contains(tmpCidr, end) THEN LargestCidrFrom(start, end, p + 1)
        ELSE [block |-> tmpCidr, next |-> Some(NextIP(tmpCidrEnd))]

\* A findTheFirstLargestCidr that starts one prefix bit too short.
findTheFirstLargestCidrShort(start, end) ==
    LET p == IPLen(start) - calculateIPLastZeroBits(start)
    IN  LargestCidrFrom(start, end, IF p > 0 THEN p - 1 ELSE p)

findTheFirstLargestCidr(start, end) ==
    LargestCidrFrom(start, end, IPLen(start) - calculateIPLastZeroBits(start))

RECURSIVE SplitFrom(_, _)
SplitFrom(nextRangeStart, rangeEnd) ==
    IF nextRangeStart = Nil THEN <<>>
    ELSE LET r == findTheFirstLargestCidr(nextRangeStart[1], rangeEnd)
         IN  <<r.block>> \o SplitFrom(r.next, rangeEnd)

splitIPRangeToIPBlocks(ir) == SplitFrom(Some(ir.start), ir.end)

(***************************************************************************)
(* FindSubnetExcludeIPBlocks                                               *)
(***************************************************************************)

\* An insertion that drops a range whose start is already in the slice.
RECURSIVE InsertByStartUnique(_, _)
InsertByStartUnique(sorted, r) ==
    IF sorted = <<>> THEN <<r>>
    ELSE IF Cmp(r.start, Head(sorted).start) = 0 THEN sorted
    ELSE IF Cmp(r.start, Head(sorted).start) < 0 THEN <<r>> \o sorted
    ELSE <<Head(sorted)>> \o InsertByStartUnique(Tail(sorted), r)

\* sort.Slice by start address (insertion sort; ranges with equal starts are
\* rejected as overlapping whatever order the sort leaves them in).
RECURSIVE InsertByStart(_, _)
InsertByStart(sorted, r) ==
    IF sorted = <<>> THEN <<r>>
    ELSE IF Cmp(r.start, Head(sorted).start) < 0 THEN <<r>> \o sorted
    ELSE <<Head(sorted)>> \o InsertByStart(Tail(sorted), r)

RECURSIVE InsertAll(_, _)
InsertAll(sorted, rs) ==
    IF rs = <<>> THEN sorted ELSE InsertAll(InsertByStart(sorted, Head(rs)), Tail(rs))

RECURSIVE InsertAllUnique(_, _)
InsertAllUnique(sorted, rs) ==
    IF rs = <<>> THEN sorted
    ELSE InsertAllUnique(InsertByStartUnique(sorted, Head(rs)), Tail(rs))

\* A sort that keeps one range of every start.
SortByStartUnique(rs) == InsertAllUnique(<<>>, rs)

SortByStart(rs) == InsertAll(<<>>, rs)

\* "if ipRange != nil { append }"
AppendRange(acc, r) == acc \o r

CalcError == [err |-> TRUE, ranges |-> <<>>]

\* A range test that looks at the start of the range only.
OutOfCidrAtStart(currentIPRange, cidrStart, cidrEnd) ==
    Cmp(currentIPRange.start, cidrStart) < 0

\* "ip range ... is out of cidr"
OutOfCidr(currentIPRange, cidrStart, cidrEnd) ==
    Cmp(currentIPRange.start, cidrStart) < 0 \/ Cmp(currentIPRange.end, cidrEnd) > 0

\* An overlap test that also rejects a range starting right after the
\* current one ends.
OverlappedOrAdjacent(currentIPRange, nextIPRange) ==
    Cmp(NextIP(currentIPRange.end), nextIPRange.start) >= 0

\* "ip range is overlapped": the current range against the next by start.
Overlapped(currentIPRange, nextIPRange) ==
    Cmp(currentIPRange.end, nextIPRange.start) >= 0

\* The first loop: validation of the sorted ranges and the complementary
\* exclusion ranges, from index i on.
RECURSIVE ComplementFrom(_, _, _, _)
ComplementFrom(c, rs, i, acc) ==
    IF i > Len(rs) THEN [err |-> FALSE, ranges |-> acc]
    ELSE LET cur == rs[i]
             cidrStart == c.ip
             cidrEnd == LastIP(c)
         IN  IF OutOfCidr(cur, cidrStart, cidrEnd)
             THEN CalcError
             ELSE IF i < Len(rs) /\ Overlapped(cur, rs[i + 1])
             THEN CalcError
             ELSE LET acc1 == IF i = 1
                              THEN AppendRange(acc, CreateIPRange(cidrStart, PrevIP(cur.start)))
                              ELSE acc
                      nextRangeStartPrev == IF i = Len(rs) THEN cidrEnd
                                            ELSE PrevIP(rs[i + 1].start)
                      acc2 == AppendRange(acc1,
                                  CreateIPRange(NextIP(cur.end), nextRangeStartPrev))
                  IN  ComplementFrom(c, rs, i + 1, acc2)

\* The inner loop of Loop2: the index of the first range that takes ipAddr,
\* or 0 when none does.
RECURSIVE FirstTaker(_, _, _)
FirstTaker(ranges, ipAddr, j) ==
    IF j > Len(ranges) THEN 0
    ELSE IF TryAddIP(ranges[j], ipAddr).ok THEN j
    ELSE FirstTaker(ranges, ipAddr, j + 1)

\* An iteration that opens no range for an address no range takes.
FoldIPNoSingle(ranges, ipAddr) ==
    LET j == FirstTaker(ranges, ipAddr, 1)
    IN  IF j > 0 THEN [ranges EXCEPT ![j] = TryAddIP(ranges[j], ipAddr).range]
        ELSE ranges

\* One iteration of Loop2.
FoldIP(ranges, ipAddr) ==
    LET j == FirstTaker(ranges, ipAddr, 1)
    IN  IF j > 0 THEN [ranges EXCEPT ![j] = TryAddIP(ranges[j], ipAddr).range]
        ELSE ranges \o CreateIPRange(ipAddr, ipAddr)

RECURSIVE FoldIPs(_, _)
FoldIPs(ranges, ips) ==
    IF ips = <<>> THEN ranges ELSE FoldIPs(FoldIP(ranges, Head(ips)), Tail(ips))

RECURSIVE SplitAll(_)
SplitAll(ranges) ==
    IF ranges = <<>> THEN <<>>
    ELSE splitIPRangeToIPBlocks(Head(ranges)) \o SplitAll(Tail(ranges))

\* A variant that forgets the gap after the last included range.
FindSubnetExcludeIPBlocksNoTail(c, ranges, gw, exIPs) ==
    LET sorted == SortByStart(ranges)
        comp == ComplementFrom(c, sorted, 1, <<>>)
        allExcludedIPs == exIPs \o gw
        kept == IF comp.ranges = <<>> THEN <<>>
                ELSE SubSeq(comp.ranges, 1, Len(comp.ranges) - 1)
    IN  IF comp.err THEN [called |-> TRUE, err |-> TRUE, blocks |-> <<>>]
        ELSE [called |-> TRUE, err |-> FALSE,
              blocks |-> SplitAll(FoldIPs(kept, allExcludedIPs))]

FindSubnetExcludeIPBlocks(c, ranges, gw, exIPs) ==
    LET sorted == SortByStart(ranges)
        comp == ComplementFrom(c, sorted, 1, <<>>)
        allExcludedIPs == exIPs \o gw
    IN  IF comp.err THEN [called |-> TRUE, err |-> TRUE, blocks |-> <<>>]
        ELSE [called |-> TRUE, err |-> FALSE,
              blocks |-> SplitAll(FoldIPs(comp.ranges, allExcludedIPs))]

(***************************************************************************)
(* Calculator inputs                                                       *)
(***************************************************************************)

MaxRanges == 2

MaxExcludeIPs == 1

\* The subnets the calculator is run on.
CalcCidrs == { [ip |-> IPv4(10, 0, 0, 4), ones |-> 30] }

\* The addresses ranges, gateway and exclude IPs are drawn from: the subnet
\* and one address on either side of it.
CalcPool(c) == PrevIP(c.ip) .. NextIP(LastIP(c))

RangesOver(S) == { r \in [start : S, end : S] : r.start <= r.end }

\* The included ranges offered: every range inside the subnet and the two
\* ranges that straddle its first and its last address.
CalcRanges(c) ==
    RangesOver(c.ip .. LastIP(c))
        \cup { [start |-> PrevIP(c.ip), end |-> c.ip],
               [start |-> LastIP(c), end |-> NextIP(LastIP(c))] }

SeqsUpTo(S, n) == UNION { [1..k -> S] : k \in 0..n }

\* The calculator touches no kernel state.
CalcIdleKernel ==
    /\ IdleAddr
    /\ IdleRc
    /\ IdleRest
    /\ rules = <<>>
    /\ routes = {}
    /\ addrs = {}
    /\ prioResult = [called |-> FALSE, ok |-> FALSE, priority |-> 0]
    /\ cfg = <<>>
    /\ proc = <<>>
    /\ calls = 0
    /\ failures = 0
    /\ parallel = FALSE
    /\ lastOk = 0

InitCalc ==
    /\ CalcIdleKernel
    /\ IdleRange
    /\ cidr \in CalcCidrs
    /\ includedRanges \in SeqsUpTo(CalcRanges(cidr), MaxRanges)
    /\ gateway = Nil
    /\ excludeIPs = <<>>
    /\ findResult = NoResult

\* One call of FindSubnetExcludeIPBlocks on the subnet's ranges; the call
\* sorts the caller's slice of ranges in place.
Find ==
    /\ findResult = NoResult
    /\ \E gw \in {Nil} \cup {Some(a) : a \in CalcPool(cidr)} :
       \E ex \in SeqsUpTo(CalcPool(cidr), MaxExcludeIPs) :
          /\ gateway' = gw
          /\ excludeIPs' = ex
          /\ findResult' = [passed |-> includedRanges, args |-> <<cidr, gw, ex>>]
                               @@ FindSubnetExcludeIPBlocks(cidr, includedRanges, gw, ex)
    /\ includedRanges' = SortByStart(includedRanges)
    /\ UNCHANGED <<cidr, theRange, tryArg, tryResult>>
    /\ UNCHANGED <<rules, routes, addrs, prioResult>>
    /\ UNCHANGED managerVars
    /\ UNCHANGED addrVars
    /\ UNCHANGED restVars

NextCalc == Find

SpecCalc == InitCalc /\ [][NextCalc]_vars

(***************************************************************************)
(* IPRange.TryAddIP on its own                                             *)
(***************************************************************************)

RangeSpan == 6

\* The addresses ranges are built over and TryAddIP is called with.
RangePool == IPv4(10, 0, 0, 8) .. (IPv4(10, 0, 0, 8) + RangeSpan)

InitRange ==
    /\ CalcIdleKernel
    /\ cidr = [ip |-> 0, ones |-> 0]
    /\ includedRanges = <<>>
    /\ gateway = Nil
    /\ excludeIPs = <<>>
    /\ findResult = NoResult
    /\ theRange \in { Some(r) : r \in RangesOver(RangePool) }
    /\ tryArg \in { Some(a) : a \in RangePool }
    /\ tryResult = NoTry

\* One call of ir.TryAddIP(tryArg).
TryAdd ==
    /\ ~tryResult.called
    /\ LET res == TryAddIP(theRange[1], tryArg[1])
       IN  /\ theRange' = Some(res.range)
           /\ tryResult' = [called |-> TRUE, ok |-> res.ok, before |-> theRange]
    /\ UNCHANGED <<cidr, includedRanges, gateway, excludeIPs, findResult, tryArg>>
    /\ UNCHANGED <<rules, routes, addrs, prioResult>>
    /\ UNCHANGED managerVars
    /\ UNCHANGED addrVars
    /\ UNCHANGED restVars

NextRange == TryAdd

SpecRange == InitRange /\ [][NextRange]_vars

(***************************************************************************)
(* The calculator on a /24 subnet                                          *)
(***************************************************************************)

ExampleCidr == [ip |-> IPv4(10, 0, 0, 0), ones |-> 24]

ExampleRange(a, b) == [start |-> IPv4(10, 0, 0, a), end |-> IPv4(10, 0, 0, b)]

ExampleRangeLists ==
    { <<>>,
      <<ExampleRange(10, 20)>>,
      <<ExampleRange(10, 20), ExampleRange(30, 40)>>,
      <<ExampleRange(30, 40), ExampleRange(10, 20)>> }

ExampleGateways == {Nil} \cup { Some(IPv4(10, 0, 0, d)) : d \in {1, 9, 21, 254, 255} }

ExampleExcludeIPs == {<<>>} \cup { <<IPv4(10, 0, 0, d)>> : d \in {1, 21, 22, 253, 254} }

InitExample ==
    /\ CalcIdleKernel
    /\ IdleRange
    /\ cidr = ExampleCidr
    /\ includedRanges \in ExampleRangeLists
    /\ gateway \in ExampleGateways
    /\ excludeIPs \in ExampleExcludeIPs
    /\ findResult = NoResult

\* One call of FindSubnetExcludeIPBlocks on the arguments at hand.
FindGiven ==
    /\ findResult = NoResult
    /\ findResult' = [passed |-> includedRanges, args |-> <<cidr, gateway, excludeIPs>>]
                         @@ FindSubnetExcludeIPBlocks(cidr, includedRanges, gateway, excludeIPs)
    /\ includedRanges' = SortByStart(includedRanges)
    /\ UNCHANGED <<cidr, gateway, excludeIPs, theRange, tryArg, tryResult>>
    /\ UNCHANGED <<rules, routes, addrs, prioResult>>
    /\ UNCHANGED managerVars
    /\ UNCHANGED addrVars
    /\ UNCHANGED restVars

NextExample == FindGiven

SpecExample == InitExample /\ [][NextExample]_vars

(***************************************************************************)
(* Calculator claims                                                       *)
(***************************************************************************)

Accepted == findResult.called /\ ~findResult.err

blocks == findResult.blocks

InRange(a, r) == r.start <= a /\ a <= r.end

RangesWith(a) == { i \in DOMAIN includedRanges : InRange(a, includedRanges[i]) }

BlocksWith(a) == { i \in DOMAIN blocks : Contains(blocks[i], a) }

BlockAddrs(b) == MaskIP(b.ip, b.ones) .. LastIP(b)

CidrAddrs == cidr.ip .. LastIP(cidr)

\* The gateway and the exclude IPs of the call.
ExcludedAddrs == { excludeIPs[i] : i \in DOMAIN excludeIPs } \cup { gateway[i] : i \in DOMAIN gateway }

C2_NoIntersectionAsStated ==
    Accepted => \A a \in CidrAddrs : RangesWith(a) = {} \/ BlocksWith(a) = {}

\* C2 amended: the only addresses of an included range that a returned block
\* contains are the gateway and the exclude IPs of the call.
C2_IntersectionOnlyExcluded ==
    Accepted =>
        \A a \in CidrAddrs \ ExcludedAddrs : RangesWith(a) = {} \/ BlocksWith(a) = {}

\* C2's case: the gateway lies inside an included range, directly next to
\* an exclusion gap, and a returned block holds it.
C2_Witness ==
    /\ Accepted
    /\ gateway # Nil
    /\ RangesWith(gateway[1]) # {}
    /\ BlocksWith(gateway[1]) # {}
    /\ RangesWith(PrevIP(gateway[1])) = {}
    /\ PrevIP(gateway[1]) \in CidrAddrs
    /\ \E a \in CidrAddrs \ ExcludedAddrs : RangesWith(a) # {}

(***************************************************************************)
(* The calculator on addresses of two families                             *)
(***************************************************************************)

\* 10.0.0.4/30 and fd00::4/126.
FamilyCidrs ==
    { [ip |-> IPv4(10, 0, 0, 4), ones |-> 30], [ip |-> IPv6(4), ones |-> 126] }

\* Included ranges inside either subnet, and one from an IPv4 to an IPv6
\* address.
FamilyRanges ==
    { [start |-> IPv4(10, 0, 0, 5), end |-> IPv4(10, 0, 0, 5)],
      [start |-> IPv4(10, 0, 0, 6), end |-> IPv4(10, 0, 0, 7)],
      [start |-> IPv6(5), end |-> IPv6(5)],
      [start |-> IPv6(6), end |-> IPv6(7)],
      [start |-> IPv4(10, 0, 0, 5), end |-> IPv6(5)] }

FamilyGateways == { Nil, Some(IPv4(10, 0, 0, 5)), Some(IPv6(5)) }

FamilyExcludeIPs == { IPv4(10, 0, 0, 6), IPv6(6) }

InitFamily ==
    /\ CalcIdleKernel
    /\ IdleRange
    /\ cidr \in FamilyCidrs
    /\ includedRanges \in SeqsUpTo(FamilyRanges, MaxRanges)
    /\ gateway \in FamilyGateways
    /\ excludeIPs \in SeqsUpTo(FamilyExcludeIPs, MaxExcludeIPs)
    /\ findResult = NoResult

SpecFamily == InitFamily /\ [][NextExample]_vars

\* The addresses of the call: the subnet's, the ranges' ends, the gateway and
\* the exclude IPs.
CallAddrs ==
    {cidr.ip}
        \cup { includedRanges[i].start : i \in DOMAIN includedRanges }
        \cup { includedRanges[i].end : i \in DOMAIN includedRanges }
        \cup { gateway[i] : i \in DOMAIN gateway }
        \cup { excludeIPs[i] : i \in DOMAIN excludeIPs }

\* The call has addresses of both families.
MixedFamilies == \E a \in CallAddrs, b \in CallAddrs : To4(a) /\ ~To4(b)

\* C33: FindSubnetExcludeIPBlocks returns an error for every call whose
\* subnet, included ranges, gateway and exclude IPs are not all of one
\* address family.
C33_MixedFamiliesRejected ==
    (findResult.called /\ MixedFamilies) => findResult.err

\* How often range r occurs in the slice rs.
Occurrences(rs, r) == Cardinality({ i \in DOMAIN rs : rs[i] = r })

\* The slices hold the same range objects, each as often.
SameRanges(rs, qs) ==
    /\ Len(rs) = Len(qs)
    /\ \A i \in DOMAIN rs : Occurrences(rs, rs[i]) = Occurrences(qs, rs[i])

\* The same call on the data as they are now.
SecondCall == FindSubnetExcludeIPBlocks(cidr, includedRanges, gateway, excludeIPs)

C34_RejectedSorted ==
    /\ findResult.called /\ findResult.err
    /\ Len(findResult.passed) = 2
    /\ findResult.passed[1].start > findResult.passed[2].start
    /\ includedRanges = <<findResult.passed[2], findResult.passed[1]>>

(***************************************************************************)
(* splitIPRangeToIPBlocks on its own                                       *)
(***************************************************************************)

SplitSpan == 7

\* The ranges that are split: every range within the first addresses of the
\* address space, within its last addresses and within a stretch in between,
\* and the whole address space.
SplitRanges ==
    RangesOver(0 .. SplitSpan)
        \cup RangesOver(IPv4(10, 0, 0, 7) .. (IPv4(10, 0, 0, 7) + SplitSpan))
        \cup RangesOver((IPv4(255, 255, 255, 255) - SplitSpan) .. IPv4(255, 255, 255, 255))
        \cup { [start |-> 0, end |-> IPv4(255, 255, 255, 255)] }

InitSplit ==
    /\ CalcIdleKernel
    /\ cidr = [ip |-> 0, ones |-> 0]
    /\ includedRanges = <<>>
    /\ gateway = Nil
    /\ excludeIPs = <<>>
    /\ findResult = NoResult
    /\ theRange \in { Some(r) : r \in SplitRanges }
    /\ tryArg = Nil
    /\ tryResult = NoTry

\* One call of theRange.splitIPRangeToIPBlocks().
Split ==
    /\ findResult = NoResult
    /\ findResult' = [called |-> TRUE, err |-> FALSE,
                      blocks |-> splitIPRangeToIPBlocks(theRange[1]), passed |-> <<>>,
                      args |-> <<>>]
    /\ UNCHANGED <<cidr, includedRanges, gateway, excludeIPs, theRange, tryArg, tryResult>>
    /\ UNCHANGED <<rules, routes, addrs, prioResult>>
    /\ UNCHANGED managerVars
    /\ UNCHANGED addrVars
    /\ UNCHANGED restVars

NextSplit == Split

SpecSplit == InitSplit /\ [][NextSplit]_vars

(***************************************************************************)
(* The kernel as netlink shows it                                          *)
(***************************************************************************)

MinRouteTableNum == 10000

MaxRouteTableNum == 40000

MaxRulePriority == 32767

NodeLocalTableNum == 255

\* unix.RT_TABLE_MAIN: the table netlink lists when no table filter is given.
MainTableNum == 254

\* fromRuleMask, the mask of a from-pod-subnet rule.
fromRuleMask == "KubeProxyMasqueradeMark+FuleNATedPodTrafficMark"

\* defaultRouteDstByFamily: 0.0.0.0/0.
defaultRouteDstByFamily == Some([ip |-> 0, ones |-> 0])

\* The kernel holds a default route without a destination, and netlink lists
\* it with Dst == nil.
KernelDst(dst) == IF dst = defaultRouteDstByFamily THEN Nil ELSE dst

\* A netlink.Route as this model keeps it; the fields the code leaves unset
\* are Nil, unicast and universe.
Route(table, dst, type, link, gw, scope, src) ==
    [table |-> table, dst |-> KernelDst(dst), type |-> type, link |-> link,
     gw |-> gw, scope |-> scope, src |-> src]

\* netlink.RouteListFiltered(family, {Table: t}, RT_FILTER_TABLE).
RoutesOfTable(rts, t) == { r \in rts : r.table = t }

\* A replace that empties the route's table first.
RouteReplaceWholeTable(rts, r) == { x \in rts : x.table # r.table } \cup {r}

\* netlink.RouteReplace: the route of the same table and destination, if
\* any, gives way to the new one.
RouteReplace(rts, r) ==
    { x \in rts : ~(x.table = r.table /\ x.dst = r.dst) } \cup {r}

\* netlink.RouteDel refuses a route with neither Dst, Src nor Gw, and the
\* kernel answers "no such process" when the route is not there.
RouteDelOk(rts, r) == r \in rts /\ ~(r.dst = Nil /\ r.src = Nil /\ r.gw = Nil)

RouteDel(rts, r) == rts \ {r}

\* A kernel rule: pref is the kernel's priority, 0..MaxRulePriority.
Rule(src, table, pref, mask) ==
    [src |-> src, table |-> table, pref |-> pref, mask |-> mask]

\* netlink.RuleList: a rule of priority 0 carries no priority attribute and
\* is listed with Priority -1 (netlink.NewRule's default).
ListedRule(kr) ==
    [Src |-> kr.src, Table |-> kr.table,
     Priority |-> IF kr.pref = 0 THEN 0 - 1 ELSE kr.pref, Mask |-> kr.mask]

RuleList(rls) == [i \in DOMAIN rls |-> ListedRule(rls[i])]

\* netlink.RuleAdd: the kernel puts the rule behind the last rule whose
\* priority is not higher.
RuleAdd(rls, kr) ==
    LET before == { i \in DOMAIN rls : rls[i].pref <= kr.pref }
        n == Cardinality(before)
    IN  SubSeq(rls, 1, n) \o <<kr>> \o SubSeq(rls, n + 1, Len(rls))

\* RuleAdd fails with "file exists" when the very same rule is there.
RuleAddOk(rls, kr) == \A i \in DOMAIN rls : rls[i] # kr

(***************************************************************************)
(* Rule lookup and rule priorities                                         *)
(***************************************************************************)

\* A priority taken as it is listed.
realRulePriorityAsListed(priority) == priority

realRulePriority(priority) == IF priority = 0 - 1 THEN 0 ELSE priority

\* A lookup that matches by source whatever table it is asked for.
checkIfRuleExistBySrc(ruleList, src, table) ==
    LET m == { i \in DOMAIN ruleList : ruleList[i].Src = src }
    IN  IF m = {} THEN [exist |-> FALSE, rule |-> Nil]
        ELSE [exist |-> TRUE,
              rule |-> Some(ruleList[CHOOSE i \in m : \A j \in m : i <= j])]

\* The rules of ruleList that checkIfRuleExist(src, table, family) accepts.
RuleMatches(ruleList, src, table) ==
    { i \in DOMAIN ruleList :
        /\ ruleList[i].Src = src
        /\ (table > 0 => ruleList[i].Table = table) }

\* checkIfRuleExist: the first matching rule in list order.
checkIfRuleExist(ruleList, src, table) ==
    LET m == RuleMatches(ruleList, src, table)
    IN  IF m = {} THEN [exist |-> FALSE, rule |-> Nil]
        ELSE [exist |-> TRUE,
              rule |-> Some(ruleList[CHOOSE i \in m : \A j \in m : i <= j])]

\* nodeLocalRulePrio after the first loop over rules 1..n: the priority of
\* the last listed rule that points at the node-local table, 0 if none.
RECURSIVE NodeLocalRulePrio(_, _)
NodeLocalRulePrio(ruleList, n) ==
    IF n = 0 THEN 0
    ELSE IF ruleList[n].Table = NodeLocalTableNum
         THEN realRulePriority(ruleList[n].Priority)
         ELSE NodeLocalRulePrio(ruleList, n - 1)

\* priorityMap.
PriorityMap(ruleList) ==
    { realRulePriority(ruleList[i].Priority) : i \in DOMAIN ruleList }

\* A test of the second loop's body that also accepts the node-local
\* rule's own priority.
PriorityFreeLoose(priorityMap, nodeLocalRulePrio, priority) ==
    /\ (priority \notin priorityMap \/ priority = nodeLocalRulePrio)
    /\ priority >= nodeLocalRulePrio

\* The test of the second loop's body.
PriorityFree(priorityMap, nodeLocalRulePrio, priority) ==
    /\ priority \notin priorityMap
    /\ priority > nodeLocalRulePrio

\* A search that answers with the last priority whatever is in use.
findHighestUnusedRulePriorityLast(ruleList) ==
    [called |-> TRUE, ok |-> TRUE, priority |-> MaxRulePriority]

\* findHighestUnusedRulePriority on the listed rules: the first priority in
\* 0..MaxRulePriority that passes the test.
findHighestUnusedRulePriority(ruleList) ==
    LET priorityMap == PriorityMap(ruleList)
        nodeLocalRulePrio == NodeLocalRulePrio(ruleList, Len(ruleList))
    IN  IF \E p \in 0..MaxRulePriority : PriorityFree(priorityMap, nodeLocalRulePrio, p)
        THEN [called |-> TRUE, ok |-> TRUE,
              priority |-> CHOOSE p \in 0..MaxRulePriority :
                  /\ PriorityFree(priorityMap, nodeLocalRulePrio, p)
                  /\ \A q \in 0..(p - 1) : ~PriorityFree(priorityMap, nodeLocalRulePrio, q)]
        ELSE [called |-> TRUE, ok |-> FALSE, priority |-> 0 - 1]

NoPriority == [called |-> FALSE, ok |-> FALSE, priority |-> 0]

(***************************************************************************)
(* Rule lists the kernel can hold                                          *)
(***************************************************************************)

MaxRules == 3

\* Priorities and tables of the rules found on a node.
RulePrefs == {0, 1, 2, MaxRulePriority}

RuleTables == {NodeLocalTableNum, MainTableNum}

SubnetCidr(n) == [ip |-> IPv4(10, 0, n, 0), ones |-> 24]

KernelRules ==
    { Rule(src, t, pf, "none") :
        src \in {Nil, Some(SubnetCidr(1))}, t \in RuleTables, pf \in RulePrefs }

\* The kernel keeps its rules ordered by priority.
SortedByPref(rls) == \A i \in 1..(Len(rls) - 1) : rls[i].pref <= rls[i + 1].pref

InitRules ==
    /\ IdleRange
    /\ IdleAddr
    /\ IdleRc
    /\ IdleRest
    /\ cidr = [ip |-> 0, ones |-> 0]
    /\ includedRanges = <<>>
    /\ gateway = Nil
    /\ excludeIPs = <<>>
    /\ findResult = NoResult
    /\ routes = {}
    /\ addrs = {}
    /\ prioResult = NoPriority
    /\ cfg = <<>>
    /\ proc = <<>>
    /\ calls = 0
    /\ failures = 0
    /\ parallel = FALSE
    /\ lastOk = 0
    /\ rules \in { rls \in SeqsUpTo(KernelRules, MaxRules) : SortedByPref(rls) }

\* One call of findHighestUnusedRulePriority.
FindPriority ==
    /\ ~prioResult.called
    /\ prioResult' = findHighestUnusedRulePriority(RuleList(rules))
    /\ UNCHANGED <<rules, routes, addrs>>
    /\ UNCHANGED calcVars
    /\ UNCHANGED managerVars
    /\ UNCHANGED addrVars
    /\ UNCHANGED restVars

NextRules == FindPriority

SpecRules == InitRules /\ [][NextRules]_vars

\* C7: the priority findHighestUnusedRulePriority returns is strictly
\* greater than the priority of every rule that points at table 255.
C7_AboveNodeLocalRule ==
    (prioResult.called /\ prioResult.ok) =>
        \A i \in DOMAIN rules :
            rules[i].table = NodeLocalTableNum =>
                /\ prioResult.priority > rules[i].pref
                /\ prioResult.priority > RuleList(rules)[i].Priority

\* C7's case: two rules point at table 255, the lower priorities above the
\* first of them are taken, and a priority was returned.
C7_Witness ==
    /\ prioResult.called /\ prioResult.ok
    /\ Cardinality({ i \in DOMAIN rules : rules[i].table = NodeLocalTableNum }) = 2
    /\ \E i \in DOMAIN rules : rules[i].table = NodeLocalTableNum /\ rules[i].pref = 2
    /\ \E i \in DOMAIN rules : rules[i].table = NodeLocalTableNum /\ rules[i].pref = 0
    /\ prioResult.priority > 2

(***************************************************************************)
(* checkIfRuleExist on its own                                             *)
(***************************************************************************)

\* The sources and tables checkIfRuleExist is asked for: no source, a source
\* the kernel may hold, one it never holds; no table (-1, 0), the tables the
\* kernel's rules point at, and a pool table no rule points at.
LookupSrcs == {Nil, Some(SubnetCidr(1)), Some(SubnetCidr(2))}

LookupTables == {0 - 1, 0, MainTableNum, NodeLocalTableNum, MinRouteTableNum}

\* One call of checkIfRuleExist.
LookupRule ==
    /\ ~ruleResult.called
    /\ \E src \in LookupSrcs, table \in LookupTables :
          LET found == checkIfRuleExist(RuleList(rules), src, table)
          IN  ruleResult' = [called |-> TRUE, src |-> src, table |-> table,
                             exist |-> found.exist, rule |-> found.rule]
    /\ UNCHANGED <<rules, routes, addrs, prioResult>>
    /\ UNCHANGED calcVars
    /\ UNCHANGED managerVars
    /\ UNCHANGED addrVars
    /\ UNCHANGED <<rcStatus, webhook, vlanIf>>

NextLookup == LookupRule

SpecLookup == InitRules /\ [][NextLookup]_vars

\* The listed rules with the source the lookup was asked for.
SameSrc == { i \in DOMAIN rules : RuleList(rules)[i].Src = ruleResult.src }

\* C31: asked with a table > 0, checkIfRuleExist reports existence iff some
\* listed rule has the source and exactly that table, and the rule it
\* returns is such a rule; asked with a table <= 0, it reports existence iff
\* some listed rule has the source, whatever its table, and returns the
\* first of them in list order; with no match it returns false and no rule.
C31_DualModeLookup ==
    ruleResult.called =>
        LET listed == RuleList(rules)
            r == ruleResult
        IN  /\ r.table > 0 =>
                  /\ r.exist <=> \E i \in SameSrc : listed[i].Table = r.table
                  /\ r.exist => /\ r.rule[1].Src = r.src
                                /\ r.rule[1].Table = r.table
                                /\ \E i \in SameSrc : listed[i] = r.rule[1]
            /\ r.table <= 0 =>
                  /\ r.exist <=> SameSrc # {}
                  /\ r.exist =>
                        \E i \in SameSrc : /\ r.rule = Some(listed[i])
                                           /\ \A j \in SameSrc : i <= j
            /\ ~r.exist => r.rule = Nil

\* C31's case: two listed rules have the source asked for and point at
\* different tables; asked without a table, the lookup has returned the
\* first of them.
C31_Witness ==
    /\ ruleResult.called /\ ruleResult.exist
    /\ ruleResult.table = 0 - 1
    /\ ruleResult.src = Some(SubnetCidr(1))
    /\ \E i \in SameSrc, j \in SameSrc :
          /\ i < j
          /\ rules[i].table # rules[j].table
          /\ ruleResult.rule = Some(RuleList(rules)[i])

\* Asked with the second rule's table, the lookup has passed over the first
\* rule of the same source and returned the second.
C31_ByTable ==
    /\ ruleResult.called /\ ruleResult.exist
    /\ ruleResult.table > 0
    /\ \E i \in SameSrc, j \in SameSrc :
          /\ i < j
          /\ rules[i].table # ruleResult.table
          /\ ruleResult.rule = Some(RuleList(rules)[j])

(***************************************************************************)
(* The policy-route manager: what a node and its subnets look like         *)
(***************************************************************************)

MaxCalls == 2

MaxFailures == 1

Subnets == {1, 2}

\* The interfaces of the node; netlink.LinkByName fails for any other name.
Links == {"eth0", "eth0.vxlan4"}

\* A lookup that hands back a link for every name.
LinkByNameAny(name) == Some(name)

LinkByName(name) == IF name \in Links THEN Some(name) ELSE Nil

\* An underlay subnet and one of its excluded blocks, as the vxlan subnets
\* are told about them.
UnderlayCidr == [ip |-> IPv4(10, 0, 3, 0), ones |-> 24]

ExcludeBlock == [ip |-> IPv4(10, 0, 3, 1), ones |-> 32]

SubnetGateway(n) == IPv4(10, 0, n, 1)

ForeignGateway == IPv4(10, 0, 9, 1)

SubnetInfo(mode, nat, underlay, excluded, gw, ifName) ==
    [mode |-> mode, autoNatOutgoing |-> nat, underlaySubnetInfoMap |-> underlay,
     underlayExcludeIPBlockMap |-> excluded, gateway |-> gw, forwardNodeIfName |-> ifName]

VxlanInfos ==
    { SubnetInfo("vxlan", FALSE, {}, {}, Nil, "eth0.vxlan4"),
      SubnetInfo("vxlan", TRUE, {}, {}, Nil, "eth0.vxlan4"),
      SubnetInfo("vxlan", TRUE, {UnderlayCidr}, {ExcludeBlock}, Nil, "eth0.vxlan4") }

VlanInfos(n) ==
    { SubnetInfo("vlan", FALSE, {}, {}, Some(SubnetGateway(n)), "eth0"),
      SubnetInfo("vlan", FALSE, {}, {}, Some(ForeignGateway), "eth0") }

OtherInfos(n) ==
    { SubnetInfo("bgp", FALSE, {}, {}, Some(SubnetGateway(n)), "eth0"),
      SubnetInfo("global-bgp", FALSE, {}, {}, Some(ForeignGateway), "eth0"),
      SubnetInfo("vxlan", FALSE, {}, {}, Nil, "eth9.vxlan4") }

\* The descriptions a subnet can have; the second subnet takes fewer.
SubnetInfos(n) ==
    IF n = 1 THEN VxlanInfos \cup VlanInfos(n) \cup OtherInfos(n)
    ELSE VxlanInfos \cup { SubnetInfo("vlan", FALSE, {}, {}, Some(SubnetGateway(n)), "eth0") }

BaseRules ==
    << Rule(Nil, NodeLocalTableNum, 0, "none"),
       Rule(Nil, MainTableNum, MaxRulePriority - 1, "none"),
       Rule(Nil, MainTableNum - 1, MaxRulePriority, "none") >>

\* A rule of subnet 1 left by an earlier run of the daemon, and the routes
\* its table still holds from the modes the subnet had.
OldTable == MinRouteTableNum + 1

OldRule == Rule(Some(SubnetCidr(1)), OldTable, 1, fromRuleMask)

OldRoutes ==
    { Route(OldTable, Some(SubnetCidr(1)), "unicast", Some("eth0"), Nil, "link", Nil),
      Route(OldTable, Nil, "unicast", Some("eth0"), Some(ForeignGateway), "universe", Nil),
      Route(OldTable, Some(SubnetCidr(2)), "unicast", Some("eth0.vxlan4"), Nil, "universe", Nil),
      Route(OldTable, Some(ExcludeBlock), "throw", Nil, Nil, "universe", Nil) }

\* A route somebody else left in the first table of the pool.
StaleRoutes ==
    { Route(MinRouteTableNum, Some(UnderlayCidr), "unicast", Some("eth0"), Nil, "universe", Nil) }

Addr(ip, noPrefixRoute, link) == [ip |-> ip, noPrefixRoute |-> noPrefixRoute, link |-> link]

MainDefault(gw) == Route(MainTableNum, Nil, "unicast", Some("eth0"), Some(gw), "universe", Nil)

MainDirect(n, src) ==
    Route(MainTableNum, Some(SubnetCidr(n)), "unicast", Some("eth0"), Nil, "link", Some(src))

\* How subnet 1 is attached to the node: the local addresses and the main
\* table.
NodeEnvs ==
    { [addrs |-> {}, main |-> {MainDefault(ForeignGateway)}],
      [addrs |-> {Addr(IPv4(10, 0, 1, 5), TRUE, "eth0")}, main |-> {}],
      [addrs |-> {Addr(IPv4(10, 0, 1, 2), FALSE, "eth0")},
       main |-> {MainDefault(SubnetGateway(1)), MainDirect(1, IPv4(10, 0, 1, 2))}],
      [addrs |-> {Addr(IPv4(10, 0, 1, 2), FALSE, "eth0")},
       main |-> {MainDefault(ForeignGateway), MainDirect(1, IPv4(10, 0, 1, 2))}],
      [addrs |-> {Addr(IPv4(10, 0, 1, 2), FALSE, "eth0")},
       main |-> {MainDefault(SubnetGateway(1))}] }

PlainEnv == [addrs |-> {}, main |-> {MainDefault(ForeignGateway)}]

IdleProc ==
    [pc |-> "idle", err |-> FALSE, ruleExist |-> FALSE, table |-> 0, forwardLink |-> Nil,
     routeList |-> {}, todo |-> {}, isLocalSubnet |-> FALSE, directSrc |-> Nil,
     priority |-> 0,
     \* history, for the properties (orphan: the table the subnet's previous
     \* pass allocated and wrote routes into before it failed, or 0):
     hadRule |-> FALSE, wrote |-> FALSE, routesDone |-> FALSE, repeat |-> FALSE,
     failed |-> FALSE, startRules |-> <<>>, startRoutes |-> {}, orphan |-> 0]

InitManager(par) ==
    /\ IdleRange
    /\ IdleAddr
    /\ IdleRc
    /\ IdleRest
    /\ cidr = [ip |-> 0, ones |-> 0]
    /\ includedRanges = <<>>
    /\ gateway = Nil
    /\ excludeIPs = <<>>
    /\ findResult = NoResult
    /\ prioResult = NoPriority
    /\ parallel = par
    /\ calls = 0
    /\ failures = 0
    /\ lastOk = 0
    /\ proc = [n \in Subnets |-> IdleProc]
    /\ cfg \in [Subnets -> UNION { SubnetInfos(n) : n \in Subnets }]
    /\ \A n \in Subnets : cfg[n] \in SubnetInfos(n)
    /\ \E env \in NodeEnvs, old \in BOOLEAN, stale \in BOOLEAN :
          /\ (cfg[1].mode # "vlan" => env = PlainEnv)
          /\ addrs = env.addrs
          /\ rules = IF old THEN RuleAdd(BaseRules, OldRule) ELSE BaseRules
          /\ routes = env.main \cup (IF old THEN OldRoutes ELSE {})
                               \cup (IF stale THEN StaleRoutes ELSE {})

(***************************************************************************)
(* ensureFromPodSubnetRuleAndRoutes, one kernel operation per step         *)
(***************************************************************************)

Active(n) == proc[n].pc \notin {"idle", "done"}

\* The locals of subnet n's call become pr; a call that returns is
\* remembered if it returned nil.
Step(n, pr) ==
    /\ proc' = [proc EXCEPT ![n] = pr]
    /\ lastOk' = IF pr.pc = "done" THEN (IF pr.err THEN 0 ELSE n) ELSE lastOk

\* A pass that logs a failed step and goes on to the rule.
LogAndContinue(pr) == [pr EXCEPT !.pc = "apCheck", !.err = TRUE]

\* "return fmt.Errorf(...)": the pass is abandoned where it stands.
AbortPass(pr) == [pr EXCEPT !.pc = "done", !.err = TRUE]

ReturnNil(pr) == [pr EXCEPT !.pc = "done", !.err = FALSE]

\* "if !ruleExist" before appendHighestUnusedPriorityRuleIfNotExist.
RuleNeeded(ruleExist) == ~ruleExist

\* The mode's ensureRoutesFor...Subnet returned nil.
RoutesEnsured(pr) ==
    IF RuleNeeded(pr.ruleExist)
    THEN [pr EXCEPT !.routesDone = TRUE, !.pc = "apCheck"]
    ELSE ReturnNil([pr EXCEPT !.routesDone = TRUE])

\* The manager calls ensureFromPodSubnetRuleAndRoutes for subnet n.
Start(n) ==
    /\ ~Active(n)
    /\ calls < MaxCalls
    /\ parallel \/ \A m \in Subnets : ~Active(m)
    /\ calls' = calls + 1
    /\ Step(n, [IdleProc EXCEPT
                  !.pc = "checkRule",
                  !.hadRule = (\E i \in DOMAIN rules : rules[i].src = Some(SubnetCidr(n))),
                  !.repeat = (lastOk = n),
                  !.orphan = IF proc[n].pc = "done" /\ proc[n].err /\ proc[n].wrote
                                 /\ ~proc[n].ruleExist
                              THEN proc[n].table ELSE 0,
                  !.startRules = rules,
                  !.startRoutes = routes])
    /\ UNCHANGED <<cfg, failures, parallel>>
    /\ UNCHANGED kernelVars
    /\ UNCHANGED calcVars
    /\ UNCHANGED addrVars
    /\ UNCHANGED restVars
    /\ UNCHANGED prioResult

\* What a step that only reads the kernel leaves alone.
ReadOnly ==
    /\ UNCHANGED <<cfg, calls, failures, parallel>>
    /\ UNCHANGED kernelVars
    /\ UNCHANGED calcVars
    /\ UNCHANGED addrVars
    /\ UNCHANGED restVars
    /\ UNCHANGED prioResult

\* What a step that writes routes leaves alone.
RoutesOnly ==
    /\ UNCHANGED <<cfg, calls, failures, parallel>>
    /\ UNCHANGED <<rules, addrs>>
    /\ UNCHANGED calcVars
    /\ UNCHANGED addrVars
    /\ UNCHANGED restVars
    /\ UNCHANGED prioResult

\* A lookup that only knows the source-and-table mode.
checkIfRuleExistByTable(ruleList, src, table) ==
    LET m == { i \in DOMAIN ruleList : ruleList[i].Src = src /\ ruleList[i].Table = table }
    IN  IF m = {} THEN [exist |-> FALSE, rule |-> Nil]
        ELSE [exist |-> TRUE,
              rule |-> Some(ruleList[CHOOSE i \in m : \A j \in m : i <= j])]

\* A head-of-pass lookup that asks for the table as well as the source.
SubnetRuleByTable(ruleList, c) == checkIfRuleExistByTable(ruleList, Some(c), 0 - 1)

\* checkIfRuleExist(cidr, -1, family) at the head of the pass.
SubnetRule(ruleList, c) == checkIfRuleExist(ruleList, Some(c), 0 - 1)

CheckRule(n) ==
    /\ proc[n].pc = "checkRule"
    /\ LET found == SubnetRule(RuleList(rules), SubnetCidr(n))
       IN  Step(n, IF found.exist
                   THEN [proc[n] EXCEPT !.ruleExist = TRUE, !.table = found.rule[1].Table,
                                        !.pc = "link"]
                   ELSE [proc[n] EXCEPT !.ruleExist = FALSE, !.table = MinRouteTableNum,
                                        !.pc = "findTable"])
    /\ ReadOnly

\* A check that takes a table with a single route for empty.
checkIfRouteTableEmptyLoose(rts, tableNum) ==
    Cardinality(RoutesOfTable(rts, tableNum)) <= 1

checkIfRouteTableEmpty(rts, tableNum) == RoutesOfTable(rts, tableNum) = {}

\* One round of findEmptyRouteTable's loop; proc[n].table is its i.
FindTable(n) ==
    /\ proc[n].pc = "findTable"
    /\ LET i == proc[n].table
       IN  Step(n, IF checkIfRouteTableEmpty(routes, i)
                   THEN [proc[n] EXCEPT !.pc = "link"]
                   ELSE IF i + 1 < MaxRouteTableNum
                        THEN [proc[n] EXCEPT !.table = i + 1]
                        ELSE AbortPass(proc[n]))
    /\ ReadOnly

\* The step a mode's route population starts with.
FirstRouteStep(mode) ==
    CASE mode = "vxlan" -> "vxList"
      [] mode = "vlan" -> "vlAddrs"
      [] mode \in {"bgp", "global-bgp"} -> "bgpDefault"

LinkStep(n) ==
    /\ proc[n].pc = "link"
    /\ LET forwardLink == LinkByName(cfg[n].forwardNodeIfName)
       IN  Step(n, IF forwardLink = Nil THEN AbortPass(proc[n])
                   ELSE [proc[n] EXCEPT !.forwardLink = forwardLink,
                                        !.pc = FirstRouteStep(cfg[n].mode)])
    /\ ReadOnly

isExcludeRoute(r) == r.type = "throw"

\* The routes the autoNatOutgoing=false branch deletes, sparing throw routes.
VxlanUselessRoutesNoThrow(routeList) ==
    { r \in routeList : r.dst # Nil /\ ~isExcludeRoute(r) }

\* The routes of routeList the autoNatOutgoing=false branch deletes.
VxlanUselessRoutes(routeList) == { r \in routeList : r.dst # Nil }

\* A deletion that leaves the table's default route alone.
NatUselessRoutesKeepDefault(routeList, underlay) ==
    { r \in routeList :
        /\ ~isExcludeRoute(r)
        /\ r.dst # Nil
        /\ r.dst[1] \notin underlay }

\* The routes of routeList the autoNatOutgoing=true branch deletes.
NatUselessRoutes(routeList, underlay) ==
    { r \in routeList :
        /\ ~isExcludeRoute(r)
        /\ ~(r.dst # Nil /\ r.dst[1] \in underlay) }

\* The pc after the deletions of the autoNatOutgoing=true branch.
AfterNatDelete(pr) == IF pr.todo # {} THEN "natReplace" ELSE "exList"

\* ensureRoutesForVxlanSubnet: the route list of the table.
VxList(n) ==
    /\ proc[n].pc = "vxList"
    /\ LET routeList == RoutesOfTable(routes, proc[n].table)
       IN  Step(n, IF ~cfg[n].autoNatOutgoing
                   THEN [proc[n] EXCEPT !.routeList = VxlanUselessRoutes(routeList),
                                        !.pc = "vxDefault"]
                   ELSE LET pr == [proc[n] EXCEPT
                                     !.routeList = NatUselessRoutes(routeList,
                                                      cfg[n].underlaySubnetInfoMap),
                                     !.todo = cfg[n].underlaySubnetInfoMap]
                        IN  [pr EXCEPT !.pc = IF pr.routeList # {} THEN "natDelete"
                                              ELSE AfterNatDelete(pr)])
    /\ ReadOnly

\* autoNatOutgoing=false: RouteReplace of the default route.
VxDefault(n) ==
    /\ proc[n].pc = "vxDefault"
    /\ routes' = RouteReplace(routes,
                    Route(proc[n].table, defaultRouteDstByFamily, "unicast",
                          proc[n].forwardLink, Nil, "universe", Nil))
    /\ Step(n, IF proc[n].routeList # {}
               THEN [proc[n] EXCEPT !.wrote = TRUE, !.pc = "vxDelete"]
               ELSE RoutesEnsured([proc[n] EXCEPT !.wrote = TRUE]))
    /\ RoutesOnly

\* autoNatOutgoing=false: RouteDel of one listed route with a destination.
VxDelete(n) ==
    /\ proc[n].pc = "vxDelete"
    /\ \E r \in proc[n].routeList :
          IF RouteDelOk(routes, r)
          THEN /\ routes' = RouteDel(routes, r)
               /\ LET pr == [proc[n] EXCEPT !.routeList = @ \ {r}]
                  IN  Step(n, IF pr.routeList # {} THEN pr ELSE RoutesEnsured(pr))
          ELSE /\ routes' = routes
               /\ Step(n, AbortPass(proc[n]))
    /\ RoutesOnly

\* autoNatOutgoing=true: RouteDel of one listed route that is neither a
\* throw route nor a route to an underlay subnet.
NatDelete(n) ==
    /\ proc[n].pc = "natDelete"
    /\ \E r \in proc[n].routeList :
          LET arg == IF r.dst = Nil THEN [r EXCEPT !.dst = defaultRouteDstByFamily] ELSE r
              gone == [arg EXCEPT !.dst = KernelDst(arg.dst)]
          IN  IF gone \in routes
              THEN /\ routes' = RouteDel(routes, gone)
                   /\ LET pr == [proc[n] EXCEPT !.routeList = @ \ {r}]
                      IN  Step(n, IF pr.routeList # {} THEN pr
                                  ELSE [pr EXCEPT !.pc = AfterNatDelete(pr)])
              ELSE /\ routes' = routes
                   /\ Step(n, AbortPass(proc[n]))
    /\ RoutesOnly

\* autoNatOutgoing=true: RouteReplace of the route to one underlay subnet.
NatReplace(n) ==
    /\ proc[n].pc = "natReplace"
    /\ \E c \in proc[n].todo :
          /\ routes' = RouteReplace(routes,
                          Route(proc[n].table, Some(c), "unicast", proc[n].forwardLink,
                                Nil, "universe", Nil))
          /\ LET pr == [proc[n] EXCEPT !.todo = @ \ {c}, !.wrote = TRUE]
             IN  Step(n, IF pr.todo # {} THEN pr ELSE [pr EXCEPT !.pc = "exList"])
    /\ RoutesOnly

\* The pc after ensureExcludedIPBlockRoutes' deletions.
AfterExDelete(pr) == IF pr.todo # {} THEN [pr EXCEPT !.pc = "exReplace"] ELSE RoutesEnsured(pr)

\* ensureExcludedIPBlockRoutes: the throw routes of the table.
ExList(n) ==
    /\ proc[n].pc = "exList"
    /\ LET excludedRouteList == { r \in RoutesOfTable(routes, proc[n].table) : r.type = "throw" }
           pr == [proc[n] EXCEPT
                    !.routeList = { r \in excludedRouteList :
                                      r.dst = Nil \/ r.dst[1] \notin cfg[n].underlayExcludeIPBlockMap },
                    !.todo = cfg[n].underlayExcludeIPBlockMap]
       IN  Step(n, IF pr.routeList # {} THEN [pr EXCEPT !.pc = "exDelete"]
                   ELSE AfterExDelete(pr))
    /\ ReadOnly

\* ensureExcludedIPBlockRoutes: RouteDel of one stale throw route.
ExDelete(n) ==
    /\ proc[n].pc = "exDelete"
    /\ \E r \in proc[n].routeList :
          IF RouteDelOk(routes, r)
          THEN /\ routes' = RouteDel(routes, r)
               /\ LET pr == [proc[n] EXCEPT !.routeList = @ \ {r}]
                  IN  Step(n, IF pr.routeList # {} THEN pr ELSE AfterExDelete(pr))
          ELSE /\ routes' = routes
               /\ Step(n, AbortPass(proc[n]))
    /\ RoutesOnly

\* ensureExcludedIPBlockRoutes: RouteReplace of one block's throw route.
ExReplace(n) ==
    /\ proc[n].pc = "exReplace"
    /\ \E c \in proc[n].todo :
          /\ routes' = RouteReplace(routes,
                          Route(proc[n].table, Some(c), "throw", Nil, Nil, "universe", Nil))
          /\ LET pr == [proc[n] EXCEPT !.todo = @ \ {c}, !.wrote = TRUE]
             IN  Step(n, IF pr.todo # {} THEN pr ELSE RoutesEnsured(pr))
    /\ RoutesOnly

\* A test that takes every local address inside cidr, enhanced or not.
IsLocalSubnetAnyAddr(localAddrList, c) ==
    \E address \in localAddrList : Contains(c, address.ip)

\* A test that takes no subnet for locally attached.
IsLocalSubnetNever(localAddrList, c) == FALSE

\* isLocalSubnet: some local address without IFA_F_NOPREFIXROUTE lies in cidr.
IsLocalSubnet(localAddrList, c) ==
    \E address \in localAddrList : Contains(c, address.ip) /\ ~address.noPrefixRoute

\* ensureRoutesForVlanSubnet: the address list and the gateway test.
VlAddrs(n) ==
    /\ proc[n].pc = "vlAddrs"
    /\ LET gw == cfg[n].gateway
       IN  Step(n, IF gw = Nil \/ ~Contains(SubnetCidr(n), gw[1]) THEN AbortPass(proc[n])
                   ELSE IF IsLocalSubnet(addrs, SubnetCidr(n))
                        THEN [proc[n] EXCEPT !.isLocalSubnet = TRUE, !.pc = "vlDefaultRoute"]
                        ELSE [proc[n] EXCEPT !.isLocalSubnet = FALSE, !.pc = "vlDirect"])
    /\ ReadOnly

\* daemonutils.GetDefaultRoute: the default routes of the main table.
GetDefaultRoute(rts) == { r \in RoutesOfTable(rts, MainTableNum) : r.dst = Nil }

\* Locally attached: the default route of the forwarding interface must not
\* carry another gateway.
VlDefaultRoute(n) ==
    /\ proc[n].pc = "vlDefaultRoute"
    /\ Step(n, IF \E defaultRoute \in GetDefaultRoute(routes) :
                     /\ defaultRoute.link = proc[n].forwardLink
                     /\ defaultRoute.gw # Nil
                     /\ defaultRoute.gw # cfg[n].gateway
               THEN AbortPass(proc[n])
               ELSE [proc[n] EXCEPT !.pc = "vlDirectList"])
    /\ ReadOnly

\* Locally attached: the direct route of cidr on the forwarding interface
\* must exist; its source address is carried over.
VlDirectList(n) ==
    /\ proc[n].pc = "vlDirectList"
    /\ LET directRouteList == { r \in RoutesOfTable(routes, MainTableNum) :
                                  r.link = proc[n].forwardLink /\ r.dst = Some(SubnetCidr(n)) }
       IN  Step(n, IF directRouteList = {} THEN AbortPass(proc[n])
                   ELSE [proc[n] EXCEPT
                           !.directSrc = (CHOOSE r \in directRouteList : TRUE).src,
                           !.pc = "vlDirect"])
    /\ ReadOnly

\* RouteReplace(subnetDirectRoute).
VlDirect(n) ==
    /\ proc[n].pc = "vlDirect"
    /\ routes' = RouteReplace(routes,
                    Route(proc[n].table, Some(SubnetCidr(n)), "unicast", proc[n].forwardLink,
                          Nil, "link", proc[n].directSrc))
    /\ Step(n, [proc[n] EXCEPT !.wrote = TRUE, !.pc = "vlDefault"])
    /\ RoutesOnly

\* RouteReplace(defaultRoute) of a vlan subnet.
VlDefault(n) ==
    /\ proc[n].pc = "vlDefault"
    /\ routes' = RouteReplace(routes,
                    Route(proc[n].table, Nil, "unicast", proc[n].forwardLink,
                          cfg[n].gateway, "universe", Nil))
    /\ Step(n, RoutesEnsured([proc[n] EXCEPT !.wrote = TRUE]))
    /\ RoutesOnly

\* ensureRoutesForBGPSubnet.
BgpDefault(n) ==
    /\ proc[n].pc = "bgpDefault"
    /\ routes' = RouteReplace(routes,
                    Route(proc[n].table, Nil, "unicast", proc[n].forwardLink,
                          cfg[n].gateway, "universe", Nil))
    /\ Step(n, RoutesEnsured([proc[n] EXCEPT !.wrote = TRUE]))
    /\ RoutesOnly

\* appendHighestUnusedPriorityRuleIfNotExist: checkIfRuleExist(src, table).
ApCheck(n) ==
    /\ proc[n].pc = "apCheck"
    /\ Step(n, IF checkIfRuleExist(RuleList(rules), Some(SubnetCidr(n)), proc[n].table).exist
               THEN ReturnNil(proc[n])
               ELSE [proc[n] EXCEPT !.pc = "apPriority"])
    /\ ReadOnly

\* appendHighestUnusedPriorityRuleIfNotExist: findHighestUnusedRulePriority.
ApPriority(n) ==
    /\ proc[n].pc = "apPriority"
    /\ LET found == findHighestUnusedRulePriority(RuleList(rules))
       IN  Step(n, IF ~found.ok THEN AbortPass(proc[n])
                   ELSE [proc[n] EXCEPT !.priority = found.priority, !.pc = "apAdd"])
    /\ ReadOnly

\* The rule appendHighestUnusedPriorityRuleIfNotExist adds.
SubnetRuleOf(n, pr) == Rule(Some(SubnetCidr(n)), pr.table, pr.priority, fromRuleMask)

\* appendHighestUnusedPriorityRuleIfNotExist: netlink.RuleAdd.
ApAdd(n) ==
    /\ proc[n].pc = "apAdd"
    /\ IF RuleAddOk(rules, SubnetRuleOf(n, proc[n]))
       THEN /\ rules' = RuleAdd(rules, SubnetRuleOf(n, proc[n]))
            /\ Step(n, ReturnNil(proc[n]))
       ELSE /\ rules' = rules
            /\ Step(n, AbortPass(proc[n]))
    /\ UNCHANGED <<cfg, calls, failures, parallel>>
    /\ UNCHANGED <<routes, addrs>>
    /\ UNCHANGED calcVars
    /\ UNCHANGED addrVars
    /\ UNCHANGED restVars
    /\ UNCHANGED prioResult

\* The kernel operation the pass is about to issue fails; the pass returns
\* the error.
KernelFail(n) ==
    /\ Active(n)
    /\ failures < MaxFailures
    /\ failures' = failures + 1
    /\ Step(n, AbortPass([proc[n] EXCEPT !.failed = TRUE]))
    /\ UNCHANGED <<cfg, calls, parallel>>
    /\ UNCHANGED kernelVars
    /\ UNCHANGED calcVars
    /\ UNCHANGED addrVars
    /\ UNCHANGED restVars
    /\ UNCHANGED prioResult

NextManager ==
    \E n \in Subnets :
        \/ Start(n)
        \/ CheckRule(n)
        \/ FindTable(n)
        \/ LinkStep(n)
        \/ VxList(n)
        \/ VxDefault(n)
        \/ VxDelete(n)
        \/ NatDelete(n)
        \/ NatReplace(n)
        \/ ExList(n)
        \/ ExDelete(n)
        \/ ExReplace(n)
        \/ VlAddrs(n)
        \/ VlDefaultRoute(n)
        \/ VlDirectList(n)
        \/ VlDirect(n)
        \/ VlDefault(n)
        \/ BgpDefault(n)
        \/ ApCheck(n)
        \/ ApPriority(n)
        \/ ApAdd(n)
        \/ KernelFail(n)

InitSeq == InitManager(FALSE)

InitConc == InitManager(TRUE)

\* One pass at a time, as the manager runs them.
SpecSeq == InitSeq /\ [][NextManager]_vars

\* The subnets' passes interleaved kernel operation by kernel operation.
SpecConc == InitConc /\ [][NextManager]_vars

(***************************************************************************)
(* Properties of the policy-route manager                                  *)
(***************************************************************************)

HasRule(n, table) ==
    \E i \in DOMAIN rules : rules[i].src = Some(SubnetCidr(n)) /\ rules[i].table = table

Returned(n) == proc[n].pc = "done" /\ ~proc[n].err

\* Subnet n's call has just returned nil and no other call has begun since.
JustReturned(n) == Returned(n) /\ lastOk = n /\ \A m \in Subnets : ~Active(m)

\* The routes a successful population of subnet n's table must have put
\* there.
ExpectedRoutes(n, pr) ==
    LET info == cfg[n]
    IN  CASE info.mode = "vxlan" /\ ~info.autoNatOutgoing ->
               { Route(pr.table, Nil, "unicast", pr.forwardLink, Nil, "universe", Nil) }
          [] info.mode = "vxlan" /\ info.autoNatOutgoing ->
               { Route(pr.table, Some(c), "unicast", pr.forwardLink, Nil, "universe", Nil) :
                   c \in info.underlaySubnetInfoMap }
               \cup { Route(pr.table, Some(c), "throw", Nil, Nil, "universe", Nil) :
                        c \in info.underlayExcludeIPBlockMap }
          [] info.mode = "vlan" ->
               { Route(pr.table, Some(SubnetCidr(n)), "unicast", pr.forwardLink, Nil, "link",
                       pr.directSrc),
                 Route(pr.table, Nil, "unicast", pr.forwardLink, info.gateway, "universe", Nil) }
          [] OTHER ->
               { Route(pr.table, Nil, "unicast", pr.forwardLink, info.gateway, "universe", Nil) }

\* C3: the rule list changes only by the last step of a pass that found no
\* rule of its subnet when it began and whose route steps have all
\* succeeded, the routes of the mode being in the table at that moment; a
\* pass that returns an error before its routes were done leaves the rules
\* as it found them.
C3_RuleOnlyAfterRoutes ==
    /\ [][ rules' # rules =>
             \E n \in Subnets :
                /\ proc[n].pc = "apAdd"
                /\ proc[n].routesDone
                /\ ~proc[n].hadRule
                /\ ExpectedRoutes(n, proc[n]) \subseteq routes
                /\ rules' = RuleAdd(rules, SubnetRuleOf(n, proc[n])) ]_vars
    /\ [][ \A n \in Subnets :
               (Active(n) /\ proc'[n].pc = "done" /\ proc'[n].err /\ ~proc'[n].routesDone)
                  => rules' = proc[n].startRules ]_vars

C3_Witness ==
    \E n \in Subnets :
       /\ Returned(n)
       /\ ~proc[n].hadRule
       /\ proc[n].wrote
       /\ HasRule(n, proc[n].table)
       /\ rules # proc[n].startRules
       /\ ExpectedRoutes(n, proc[n]) \subseteq routes

\* C4: a pass of a subnet that follows a successful pass of the same subnet,
\* nothing else having touched the kernel in between, returns with the rules
\* and the routes of every table exactly as it found them.
C4_Idempotent ==
    \A n \in Subnets :
       JustReturned(n) /\ proc[n].repeat
          => rules = proc[n].startRules /\ routes = proc[n].startRoutes

C4_Witness ==
    \E n \in Subnets :
       /\ JustReturned(n)
       /\ proc[n].repeat
       /\ proc[n].wrote
       /\ proc[n].hadRule
       /\ proc[n].table = MinRouteTableNum
       /\ HasRule(n, MinRouteTableNum)

\* C5: no two subnets' source rules point at the same route table.
C5_DisjointTables ==
    \A i, j \in DOMAIN rules :
       (rules[i].src # Nil /\ rules[j].src # Nil /\ rules[i].src # rules[j].src)
          => rules[i].table # rules[j].table

\* C6: when findEmptyRouteTable has returned, its table lies in
\* [MinRouteTableNum, MaxRouteTableNum), holds no route, and every table of
\* the pool below it holds one.
C6_LowestEmptyTable ==
    \A n \in Subnets :
       proc[n].pc = "link" /\ ~proc[n].ruleExist
          => /\ proc[n].table >= MinRouteTableNum
             /\ proc[n].table < MaxRouteTableNum
             /\ RoutesOfTable(routes, proc[n].table) = {}
             /\ \A t \in MinRouteTableNum .. (proc[n].table - 1) :
                   RoutesOfTable(routes, t) # {}

C6_Witness ==
    \E n \in Subnets :
       /\ proc[n].pc = "link"
       /\ ~proc[n].ruleExist
       /\ proc[n].table = MinRouteTableNum + 2
       /\ RoutesOfTable(routes, MinRouteTableNum) # {}
       /\ RoutesOfTable(routes, MinRouteTableNum + 1) # {}

\* C8: two passes of distinct subnets, neither subnet having a rule when its
\* pass began, never both write routes into one table and both install
\* their rule for it.
C8_NoSharedTable ==
    ~ ( /\ Returned(1) /\ Returned(2)
        /\ ~proc[1].hadRule /\ ~proc[2].hadRule
        /\ proc[1].wrote /\ proc[2].wrote
        /\ proc[1].table = proc[2].table
        /\ HasRule(1, proc[1].table)
        /\ HasRule(2, proc[2].table) )

\* The kernel holds one route per table and destination here: the manager
\* never sets netlink.Route.Priority, so every route it writes has metric 0
\* and RouteReplace overwrites the route of the same table and destination.
\* Routes of other metrics put into a table by somebody else are outside
\* the model.
\*
\* C9: when the pass of a vxlan subnet without autoNatOutgoing has returned
\* nil, the subnet's table holds the universe-scope default route via the
\* forwarding interface and nothing else.
C9_VxlanSingleDefault ==
    \A n \in Subnets :
       (JustReturned(n) /\ cfg[n].mode = "vxlan" /\ ~cfg[n].autoNatOutgoing)
          => RoutesOfTable(routes, proc[n].table) =
                { Route(proc[n].table, Nil, "unicast", Some(cfg[n].forwardNodeIfName),
                        Nil, "universe", Nil) }

C9_Witness ==
    \E n \in Subnets :
       /\ JustReturned(n)
       /\ cfg[n].mode = "vxlan"
       /\ ~cfg[n].autoNatOutgoing
       /\ \E r \in RoutesOfTable(proc[n].startRoutes, proc[n].table) : r.type = "throw"
       /\ \E r \in RoutesOfTable(proc[n].startRoutes, proc[n].table) :
             r.type = "unicast" /\ r.dst # Nil
       /\ \E r \in RoutesOfTable(proc[n].startRoutes, proc[n].table) :
             r.dst = Nil /\ r.gw # Nil

\* Subnet n is a vlan subnet with its gateway inside cidr and no local
\* address without the no-prefix-route flag inside cidr.
VlanNotAttached(n) ==
    /\ cfg[n].mode = "vlan"
    /\ cfg[n].gateway # Nil
    /\ Contains(SubnetCidr(n), cfg[n].gateway[1])
    /\ ~ \E a \in addrs : Contains(SubnetCidr(n), a.ip) /\ ~a.noPrefixRoute

\* C10: for a vlan subnet that is not locally attached, the pass never
\* reaches the checks of the main table's default and direct routes, fails
\* only if a kernel operation fails, and when it has returned nil the table
\* holds the link-scope direct route to cidr and the universe-scope default
\* route via the gateway, both on the forwarding interface.
C10_VlanUnconditional ==
    \A n \in Subnets :
       VlanNotAttached(n)
          => /\ proc[n].pc \notin {"vlDefaultRoute", "vlDirectList"}
             /\ (proc[n].pc = "done" /\ proc[n].err => proc[n].failed)
             /\ JustReturned(n)
                   => { Route(proc[n].table, Some(SubnetCidr(n)), "unicast",
                              Some(cfg[n].forwardNodeIfName), Nil, "link", Nil),
                        Route(proc[n].table, Nil, "unicast",
                              Some(cfg[n].forwardNodeIfName), cfg[n].gateway, "universe", Nil) }
                      \subseteq routes

C10_Witness ==
    \E n \in Subnets :
       /\ VlanNotAttached(n)
       /\ JustReturned(n)
       /\ \E a \in addrs : Contains(SubnetCidr(n), a.ip) /\ a.noPrefixRoute
       /\ ~ \E r \in RoutesOfTable(proc[n].startRoutes, MainTableNum) : r.dst = Some(SubnetCidr(n))
       /\ Route(proc[n].table, Some(SubnetCidr(n)), "unicast", Some("eth0"), Nil, "link", Nil)
             \in routes
       /\ Route(proc[n].table, Nil, "unicast", Some("eth0"), cfg[n].gateway, "universe", Nil)
             \in routes

\* C11: a pass whose forwarding interface name resolves to no interface
\* returns an error, and the rules, the routes and the addresses are then
\* what they were when the pass began.
C11_NoLinkNoChange ==
    [][ \A n \in Subnets :
           (Active(n) /\ proc'[n].pc = "done" /\ cfg[n].forwardNodeIfName \notin Links)
              => /\ proc'[n].err
                 /\ rules' = proc[n].startRules
                 /\ routes' = proc[n].startRoutes
                 /\ addrs' = addrs ]_vars

C11_Witness ==
    \E n \in Subnets :
       /\ cfg[n].forwardNodeIfName \notin Links
       /\ proc[n].pc = "done"
       /\ proc[n].err
       /\ ~proc[n].failed
       /\ ~proc[n].ruleExist
       /\ proc[n].table = MinRouteTableNum + 1
       /\ proc[n].forwardLink = Nil
       /\ rules = proc[n].startRules
       /\ routes = proc[n].startRoutes

\* C12: TryAddIP on [s, e] with x: x = s-1 gives true and [x, e]; x = e+1
\* gives true and [s, x]; s <= x <= e gives true and the range as it was;
\* any other x gives false and the range as it was; start <= end afterwards.
C12_TryAddIP ==
    tryResult.called =>
       LET s == tryResult.before[1].start
           e == tryResult.before[1].end
           x == tryArg[1]
       IN  /\ (x = s - 1 => tryResult.ok /\ theRange[1] = [start |-> x, end |-> e])
           /\ (x = e + 1 => tryResult.ok /\ theRange[1] = [start |-> s, end |-> x])
           /\ (s <= x /\ x <= e => tryResult.ok /\ theRange[1] = tryResult.before[1])
           /\ (x < s - 1 \/ x > e + 1 => ~tryResult.ok /\ theRange[1] = tryResult.before[1])
           /\ theRange[1].start <= theRange[1].end

C12_Witness ==
    /\ tryResult.called
    /\ tryResult.ok
    /\ tryArg[1] = tryResult.before[1].end + 1
    /\ theRange[1].end = tryArg[1]
    /\ theRange[1].start < tryResult.before[1].end

\* Some included range of the call begins before the first or ends after the
\* last address of cidr.
SomeRangeOutside ==
    \E i \in DOMAIN includedRanges :
       includedRanges[i].start < cidr.ip \/ includedRanges[i].end > LastIP(cidr)

\* Two included ranges of the call share an address.
SomeRangesOverlap ==
    \E i, j \in DOMAIN includedRanges :
       /\ i # j
       /\ includedRanges[i].start <= includedRanges[j].end
       /\ includedRanges[j].start <= includedRanges[i].end

\* One included range of the call ends right before another begins.
SomeRangesAdjacent ==
    \E i, j \in DOMAIN includedRanges :
       includedRanges[j].start = includedRanges[i].end + 1

\* C13: a call with an included range that leaves cidr, or with two included
\* ranges that share an address, returns an error and no blocks, in whatever
\* order the ranges are passed.
C13_RejectsOutsideAndOverlap ==
    (findResult.called /\ (SomeRangeOutside \/ SomeRangesOverlap))
       => findResult.err /\ findResult.blocks = <<>>

C13_Witness ==
    /\ findResult.called
    /\ findResult.err
    /\ Len(findResult.passed) = 2
    /\ findResult.passed[1].start > findResult.passed[2].start
    /\ findResult.passed[1].end > LastIP(cidr)
    /\ ~SomeRangesOverlap

\* C14 as stated: a call with two adjacent included ranges returns an error.
C14_AdjacentRejectedAsStated ==
    (findResult.called /\ SomeRangesAdjacent) => findResult.err

\* C14: a call whose included ranges all lie in cidr and share no address is
\* accepted even when one range ends right before another begins, and then
\* no block lies between the two: the blocks hold no address of an included
\* range other than the gateway and the exclude IPs.
C14_AdjacentAccepted ==
    (findResult.called /\ SomeRangesAdjacent /\ ~SomeRangeOutside /\ ~SomeRangesOverlap)
       => /\ ~findResult.err
          /\ \A a \in CidrAddrs :
                (RangesWith(a) # {} /\ a \notin ExcludedAddrs) => BlocksWith(a) = {}

C14_Witness ==
    /\ findResult.called
    /\ ~findResult.err
    /\ Len(findResult.passed) = 2
    /\ findResult.passed[1].start = findResult.passed[2].end + 1
    /\ findResult.passed[2].start = cidr.ip
    /\ findResult.passed[1].end = LastIP(cidr)
    /\ gateway = Nil
    /\ excludeIPs = <<>>
    /\ findResult.blocks = <<>>

\* The addresses the returned blocks hold.
BlocksUnion == UNION { BlockAddrs(blocks[i]) : i \in DOMAIN blocks }

WidestBlock == IPv4Bits - 4

\* The CIDR blocks made of addresses of S only.
BlocksInside(S) ==
    { b \in [ip : S, ones : WidestBlock .. IPv4Bits] :
        MaskIP(b.ip, b.ones) = b.ip /\ BlockAddrs(b) \subseteq S }

\* The fewest CIDR blocks whose union is S: the blocks inside S that lie in
\* no larger block inside S.
FewestBlocks(S) ==
    Cardinality({ b \in BlocksInside(S) :
                    \A w \in BlocksInside(S) :
                       BlockAddrs(b) \subseteq BlockAddrs(w) => w = b })

\* C16: for every accepted input no set of fewer CIDR blocks has the union
\* of the returned blocks.
C16_MinimalCover ==
    Accepted => Len(blocks) = FewestBlocks(BlocksUnion)

\* The call of the example: 10.0.0.0/24, included 10.0.0.10-10.0.0.20,
\* gateway 10.0.0.1, exclude IP 10.0.0.254.
ExampleCall ==
    /\ findResult.called
    /\ cidr = ExampleCidr
    /\ includedRanges = <<ExampleRange(10, 20)>>
    /\ gateway = Some(IPv4(10, 0, 0, 1))
    /\ excludeIPs = <<IPv4(10, 0, 0, 254)>>

ExampleBlock(d, ones) == [ip |-> IPv4(10, 0, 0, d), ones |-> ones]

\* C17 as stated: the example returns blocks covering 10.0.0.0-10.0.0.9 with
\* 10.0.0.1 in one block only, blocks covering 10.0.0.21-10.0.0.253, and the
\* separate block 10.0.0.254/32, starting 10.0.0.0/29, 10.0.0.8/31.
C17_ExampleAsStated ==
    ExampleCall =>
       /\ ~findResult.err
       /\ Len(blocks) >= 2
       /\ blocks[1] = ExampleBlock(0, 29)
       /\ blocks[2] = ExampleBlock(8, 31)
       /\ Cardinality(BlocksWith(IPv4(10, 0, 0, 1))) = 1
       /\ \E i \in DOMAIN blocks : blocks[i] = ExampleBlock(254, 32)
       /\ UNION { BlockAddrs(blocks[i]) :
                    i \in { j \in DOMAIN blocks : blocks[j] # ExampleBlock(254, 32) } }
             = (IPv4(10, 0, 0, 0) .. IPv4(10, 0, 0, 9))
                  \cup (IPv4(10, 0, 0, 21) .. IPv4(10, 0, 0, 253))

\* C17: the example returns 10.0.0.0/29, 10.0.0.8/31 for 10.0.0.0-10.0.0.9
\* and 10.0.0.21/32, 10.0.0.22/31, 10.0.0.24/29, 10.0.0.32/27, 10.0.0.64/26,
\* 10.0.0.128/25 for 10.0.0.21-10.0.0.255; 10.0.0.1 and 10.0.0.254 lie in one
\* block each and get no block of their own.
C17_Example ==
    ExampleCall =>
       /\ ~findResult.err
       /\ blocks = << ExampleBlock(0, 29), ExampleBlock(8, 31), ExampleBlock(21, 32),
                      ExampleBlock(22, 31), ExampleBlock(24, 29), ExampleBlock(32, 27),
                      ExampleBlock(64, 26), ExampleBlock(128, 25) >>
       /\ Cardinality(BlocksWith(IPv4(10, 0, 0, 1))) = 1
       /\ Cardinality(BlocksWith(IPv4(10, 0, 0, 254))) = 1
       /\ BlocksUnion = (IPv4(10, 0, 0, 0) .. IPv4(10, 0, 0, 9))
                           \cup (IPv4(10, 0, 0, 21) .. IPv4(10, 0, 0, 255))

C17_Witness ==
    /\ ExampleCall
    /\ Len(blocks) = 8
    /\ blocks[8] = ExampleBlock(128, 25)
    /\ Contains(blocks[8], IPv4(10, 0, 0, 254))

\* C38: splitIPRangeToIPBlocks returns, for a range at the start, at the end
\* or inside the address space alike, blocks in ascending order that each
\* start at a network address of their prefix and lie one right after the
\* other from the range's start to its end, so that they are pairwise
\* disjoint with the range as their union; no smaller set of CIDR blocks has
\* that union.
C38_GreedySplit ==
    findResult.called =>
        LET ir == theRange[1]
        IN  /\ Len(blocks) >= 1
            /\ \A i \in DOMAIN blocks :
                  /\ blocks[i].ones \in 0..IPv4Bits
                  /\ MaskIP(blocks[i].ip, blocks[i].ones) = blocks[i].ip
            /\ blocks[1].ip = ir.start
            /\ LastIP(blocks[Len(blocks)]) = ir.end
            /\ \A i \in 1..(Len(blocks) - 1) :
                  /\ Below(blocks[i].ip, blocks[i + 1].ip)
                  /\ Below(LastIP(blocks[i]), blocks[i + 1].ip)
                  /\ blocks[i + 1].ip = NextIP(LastIP(blocks[i]))
            /\ Len(blocks) > 1 => Len(blocks) = FewestBlocks(ir.start .. ir.end)

\* C38's case: a range that ends at 255.255.255.255 and needs three blocks
\* has been split.
C38_Witness ==
    /\ findResult.called
    /\ theRange[1].end = IPv4(255, 255, 255, 255)
    /\ Len(blocks) = 3

\* A range that starts at 0.0.0.0 and needs three blocks has been split.
C38_FromZero ==
    /\ findResult.called
    /\ theRange[1].start = 0
    /\ Len(blocks) = 3

\* The whole address space has been split, into 0.0.0.0/0.
C38_WholeSpace ==
    /\ findResult.called
    /\ theRange[1] = [start |-> 0, end |-> IPv4(255, 255, 255, 255)]
    /\ blocks = <<[ip |-> 0, ones |-> 0]>>

(***************************************************************************)
(* The address manager: SyncAddresses                                      *)
(***************************************************************************)

\* The interfaces netlink.LinkList returns.
HostLinks == {"eth0", "eth1", "pod0_h"}

\* containernetwork.CheckIfContainerNetworkLink: the pod virtual interfaces.
CheckIfContainerNetworkLink(name) == name = "pod0_h"

\* netlink.LinkByName as the address manager calls it.
HostLinkByName(name) == IF name \in HostLinks THEN Some(name) ELSE Nil

\* An address built with the default, global scope.
EnhancedAddrGlobal(ip, ones) ==
    [ip |-> ip, ones |-> ones, noPrefixRoute |-> TRUE, scope |-> "global"]

EnhancedAddr(ip, ones) == [ip |-> ip, ones |-> ones, noPrefixRoute |-> TRUE, scope |-> "link"]

ManualAddr(ip, ones) == [ip |-> ip, ones |-> ones, noPrefixRoute |-> FALSE, scope |-> "global"]

\* A classification that takes every address for an enhanced one.
checkIfEnhancedAddrAlways(addr) == TRUE

\* checkIfEnhancedAddr: the address carries the link-scope, no-prefix-route
\* marking.
checkIfEnhancedAddr(addr) == addr.noPrefixRoute /\ addr.scope = "link"

\* ip.Network(addr.IPNet)
Network(addr) == [ip |-> MaskIP(addr.ip, addr.ones), ones |-> addr.ones]

TrackedEntry(ifName, subnet, podIP) ==
    [forwardNodeIfName |-> ifName, subnet |-> subnet, podIP |-> podIP]

\* The interfaces SyncAddresses looks at, pod virtual interfaces left out.
ListedLinks == { l \in HostLinks : ~CheckIfContainerNetworkLink(l) }

\* The places of an address list whose enhanced address is the last one of
\* its subnet in the list: a later address of the subnet overwrites the map
\* entry of an earlier one.
LastEnhanced(addrList) ==
    { i \in DOMAIN addrList :
        /\ checkIfEnhancedAddr(addrList[i])
        /\ \A k \in DOMAIN addrList :
              (k > i /\ checkIfEnhancedAddr(addrList[k]))
                 => Network(addrList[k]) # Network(addrList[i]) }

\* existEnhancedAddrMap after the enumeration.
ExistEnhancedAddrMap(addrLists) ==
    UNION { { [link |-> l, subnet |-> Network(addrLists[l][i]), addr |-> addrLists[l][i]] :
                i \in LastEnhanced(addrLists[l]) } : l \in ListedLinks }

\* existManualAddrSubnetMap after the enumeration.
ExistManualAddrSubnetMap(addrLists) ==
    UNION { { [link |-> l, subnet |-> Network(addrLists[l][i])] :
                i \in { k \in DOMAIN addrLists[l] : ~checkIfEnhancedAddr(addrLists[l][k]) } } :
            l \in ListedLinks }

\* A clearing that spares the untracked interfaces.
UselessOnTrackedOnly(e, tracked) ==
    /\ \E t \in tracked : t.forwardNodeIfName = e.link
    /\ ~ \E t \in tracked : t.forwardNodeIfName = e.link /\ t.subnet = e.subnet

\* "clear enhanced addresses which are impossible to be used": the
\* interface is not tracked, or it is and the subnet is not among its targets.
Useless(e, tracked) ==
    ~ \E t \in tracked : t.forwardNodeIfName = e.link /\ t.subnet = e.subnet

SameAddr(a, b) == a.ip = b.ip /\ a.ones = b.ones

\* netlink.AddrAdd fails when the interface has the address already.
AddrAddOk(addrLists, link, a) ==
    ~ \E i \in DOMAIN addrLists[link] : SameAddr(addrLists[link][i], a)

AddrAdd(addrLists, link, a) == [addrLists EXCEPT ![link] = Append(@, a)]

\* netlink.AddrDel fails when the interface does not have the address.
AddrDelOk(addrLists, link, a) ==
    \E i \in DOMAIN addrLists[link] : SameAddr(addrLists[link][i], a)

AddrDel(addrLists, link, a) ==
    [addrLists EXCEPT ![link] = SelectSeq(@, LAMBDA x : ~SameAddr(x, a))]

\* getIPInstanceByAddress: "error" when the list fails or finds more than
\* one instance, "none" when it finds no instance, else the node the one
\* instance is labelled with.
getIPInstanceByAddress(address) ==
    IF address \in DOMAIN owners THEN owners[address] ELSE "none"

(***************************************************************************)
(* The node the address manager runs on                                    *)
(***************************************************************************)

A5 == IPv4(10, 0, 1, 5)

A6 == IPv4(10, 0, 1, 6)

B5 == IPv4(10, 0, 2, 5)

B6 == IPv4(10, 0, 2, 6)

\* The address lists the forwarding interface eth0 can start with.
Eth0Pool ==
    { EnhancedAddr(A6, 24), EnhancedAddr(A5, 24), EnhancedAddr(B6, 24),
      ManualAddr(IPv4(10, 0, 1, 2), 24), ManualAddr(IPv4(10, 0, 1, 3), 16) }

MaxIfAddrs == 2

Eth0Lists ==
    { l \in SeqsUpTo(Eth0Pool, MaxIfAddrs) : \A i, j \in DOMAIN l : i # j => l[i] # l[j] }

\* eth1 with nothing, with one enhanced address, and with the two enhanced
\* addresses of one subnet a replacement leaves when its AddrDel failed.
Eth1Lists ==
    { <<>>, <<EnhancedAddr(A6, 24)>>, <<EnhancedAddr(A6, 24), EnhancedAddr(A5, 24)>> }

PodLists == { <<>>, <<EnhancedAddr(A6, 24), ManualAddr(IPv4(10, 0, 1, 2), 24)>> }

TrackedMaps ==
    { {},
      { TrackedEntry("eth0", SubnetCidr(1), A5) },
      { TrackedEntry("eth0", SubnetCidr(2), B5) },
      { TrackedEntry("eth0", SubnetCidr(1), A5), TrackedEntry("eth0", SubnetCidr(2), B5) },
      { TrackedEntry("eth1", SubnetCidr(1), A5) },
      { TrackedEntry("eth9", SubnetCidr(1), A5) } }

LocalNodeName == "local"

OwnerAnswers == { "none", LocalNodeName, "remote", "error" }

InitAddr ==
    /\ IdleRange
    /\ cidr = [ip |-> 0, ones |-> 0]
    /\ includedRanges = <<>>
    /\ gateway = Nil
    /\ excludeIPs = <<>>
    /\ findResult = NoResult
    /\ rules = <<>>
    /\ routes = {}
    /\ addrs = {}
    /\ prioResult = NoPriority
    /\ cfg = <<>>
    /\ proc = <<>>
    /\ calls = 0
    /\ failures = 0
    /\ parallel = FALSE
    /\ lastOk = 0
    /\ sync = IdleSync
    /\ infoCalls = <<>>
    /\ IdleRc
    /\ IdleRest
    /\ interfaceToSubnetMap \in TrackedMaps
    /\ \E a \in OwnerAnswers, b \in { "none", LocalNodeName } :
          owners = (A6 :> a) @@ (B6 :> b)
    /\ \E e0 \in Eth0Lists, e1 \in Eth1Lists, pd \in PodLists :
          ifAddrs = [l \in HostLinks |->
                       IF l = "eth0" THEN e0 ELSE IF l = "eth1" THEN e1 ELSE pd]

(***************************************************************************)
(* SyncAddresses, one kernel operation per step                            *)
(***************************************************************************)

SyncActive == sync.pc \notin {"idle", "done"}

\* What a step of SyncAddresses leaves alone.
SyncFrame ==
    /\ UNCHANGED <<interfaceToSubnetMap, owners, infoCalls, restVars>>
    /\ UNCHANGED <<cfg, proc, parallel, lastOk>>
    /\ UNCHANGED kernelVars
    /\ UNCHANGED calcVars
    /\ UNCHANGED prioResult

SyncAbort(rec) == [rec EXCEPT !.pc = "done", !.err = TRUE]

\* The pc once the clearing loop is through.
AfterClear(rec) ==
    IF interfaceToSubnetMap = {} THEN [rec EXCEPT !.pc = "done"]
    ELSE [rec EXCEPT !.pc = "ensure", !.todo = interfaceToSubnetMap]

\* The pc once a tracked entry is dealt with.
AfterEntry(rec) ==
    IF rec.todo = {} THEN [rec EXCEPT !.pc = "done"] ELSE [rec EXCEPT !.pc = "ensure"]

\* The daemon calls SyncAddresses.
SyncStart ==
    /\ ~SyncActive
    /\ calls < MaxCalls
    /\ calls' = calls + 1
    /\ sync' = [IdleSync EXCEPT !.pc = "list", !.startAddrs = ifAddrs,
                                !.repeat = (sync.pc = "done" /\ ~sync.err)]
    /\ UNCHANGED <<ifAddrs, failures>>
    /\ SyncFrame

\* The enumeration of the links and their addresses.
SyncList ==
    /\ sync.pc = "list"
    /\ LET rec == [sync EXCEPT
                     !.existEnhancedAddrMap = ExistEnhancedAddrMap(ifAddrs),
                     !.existManualAddrSubnetMap = ExistManualAddrSubnetMap(ifAddrs)]
           todo == { e \in rec.existEnhancedAddrMap : Useless(e, interfaceToSubnetMap) }
       IN  sync' = IF todo # {} THEN [rec EXCEPT !.pc = "clear", !.todo = todo]
                   ELSE AfterClear(rec)
    /\ UNCHANGED <<ifAddrs, calls, failures>>
    /\ SyncFrame

\* netlink.AddrDel of one enhanced address that is of no use any more.
SyncClear ==
    /\ sync.pc = "clear"
    /\ \E e \in sync.todo :
          IF AddrDelOk(ifAddrs, e.link, e.addr)
          THEN /\ ifAddrs' = AddrDel(ifAddrs, e.link, e.addr)
               /\ LET rec == [sync EXCEPT !.todo = @ \ {e}]
                  IN  sync' = IF rec.todo # {} THEN rec ELSE AfterClear(rec)
          ELSE /\ ifAddrs' = ifAddrs
               /\ sync' = SyncAbort(sync)
    /\ UNCHANGED <<calls, failures>>
    /\ SyncFrame

\* A check that never finds a manual address.
ManualAddrExistNever(rec, t) == FALSE

\* "check if manual address exist for subnet, if exist, don't do anything"
ManualAddrExist(rec, t) ==
    [link |-> t.forwardNodeIfName, subnet |-> t.subnet] \in rec.existManualAddrSubnetMap

\* The recorded enhanced address of the entry's interface and subnet.
ExistEnhanced(rec, t) ==
    { e \in rec.existEnhancedAddrMap : e.link = t.forwardNodeIfName /\ e.subnet = t.subnet }

\* A decision that replaces whatever differs without asking for its owner.
DecideNoOwner(rec, t) ==
    IF ManualAddrExist(rec, t) THEN [do |-> "skip", answer |-> "", old |-> Nil]
    ELSE IF ExistEnhanced(rec, t) = {} THEN [do |-> "add", answer |-> "", old |-> Nil]
    ELSE LET enhancedAddr == (CHOOSE e \in ExistEnhanced(rec, t) : TRUE).addr
         IN  IF enhancedAddr.ip = t.podIP THEN [do |-> "skip", answer |-> "", old |-> Nil]
             ELSE [do |-> "add", answer |-> "", old |-> Some(enhancedAddr)]

\* The body of the loop over a tracked interface's subnets, up to the call
\* of ensureSubnetEnhancedAddr: skip the entry, return an error, or add the
\* pod address with old as outOfDateEnhancedAddr.
Decide(rec, t) ==
    IF ManualAddrExist(rec, t) THEN [do |-> "skip", answer |-> "", old |-> Nil]
    ELSE IF ExistEnhanced(rec, t) = {} THEN [do |-> "add", answer |-> "", old |-> Nil]
    ELSE LET enhancedAddr == (CHOOSE e \in ExistEnhanced(rec, t) : TRUE).addr
             answer == getIPInstanceByAddress(enhancedAddr.ip)
         IN  IF enhancedAddr.ip = t.podIP THEN [do |-> "skip", answer |-> "", old |-> Nil]
             ELSE IF answer = "error" THEN [do |-> "error", answer |-> answer, old |-> Nil]
             ELSE IF answer = LocalNodeName THEN [do |-> "skip", answer |-> answer, old |-> Nil]
             ELSE [do |-> "add", answer |-> answer, old |-> Some(enhancedAddr)]

\* One tracked entry: LinkByName, the checks, and the AddrAdd of
\* ensureSubnetEnhancedAddr.
SyncEnsure ==
    /\ sync.pc = "ensure"
    /\ \E t \in sync.todo :
          LET rec == [sync EXCEPT !.todo = @ \ {t}, !.current = Some(t),
                                  !.outOfDateEnhancedAddr = Nil, !.answer = ""]
              d == Decide(rec, t)
              new == EnhancedAddr(t.podIP, t.subnet.ones)
          IN  IF HostLinkByName(t.forwardNodeIfName) = Nil
              THEN /\ ifAddrs' = ifAddrs
                   /\ sync' = SyncAbort(rec)
              ELSE IF d.do = "skip"
              THEN /\ ifAddrs' = ifAddrs
                   /\ sync' = AfterEntry([rec EXCEPT !.answer = d.answer])
              ELSE IF d.do = "error"
              THEN /\ ifAddrs' = ifAddrs
                   /\ sync' = SyncAbort([rec EXCEPT !.answer = d.answer])
              ELSE LET asked == [rec EXCEPT
                                   !.answer = d.answer,
                                   !.outOfDateEnhancedAddr = d.old,
                                   !.requested = @ \cup {[link |-> t.forwardNodeIfName,
                                                           addr |-> new]},
                                   !.superseded = @ \cup {[link |-> t.forwardNodeIfName,
                                                            addr |-> d.old[i]] :
                                                            i \in DOMAIN d.old}]
                   IN  IF AddrAddOk(ifAddrs, t.forwardNodeIfName, new)
                       THEN /\ ifAddrs' = AddrAdd(ifAddrs, t.forwardNodeIfName, new)
                            /\ sync' = IF d.old # Nil THEN [asked EXCEPT !.pc = "supersede"]
                                       ELSE AfterEntry(asked)
                       ELSE /\ ifAddrs' = ifAddrs
                            /\ sync' = SyncAbort(asked)
    /\ UNCHANGED <<calls, failures>>
    /\ SyncFrame

\* ensureSubnetEnhancedAddr: the AddrDel of the superseded address, after
\* the new one is installed.
SyncSupersede ==
    /\ sync.pc = "supersede"
    /\ LET link == sync.current[1].forwardNodeIfName
           old == sync.outOfDateEnhancedAddr[1]
       IN  IF AddrDelOk(ifAddrs, link, old)
           THEN /\ ifAddrs' = AddrDel(ifAddrs, link, old)
                /\ sync' = AfterEntry(sync)
           ELSE /\ ifAddrs' = ifAddrs
                /\ sync' = SyncAbort(sync)
    /\ UNCHANGED <<calls, failures>>
    /\ SyncFrame

\* The kernel operation SyncAddresses is about to issue fails.
SyncFail ==
    /\ SyncActive
    /\ failures < MaxFailures
    /\ failures' = failures + 1
    /\ sync' = SyncAbort([sync EXCEPT !.failed = TRUE])
    /\ UNCHANGED <<ifAddrs, calls>>
    /\ SyncFrame

NextAddr ==
    \/ SyncStart
    \/ SyncList
    \/ SyncClear
    \/ SyncEnsure
    \/ SyncSupersede
    \/ SyncFail

SpecAddr == InitAddr /\ [][NextAddr]_vars

(***************************************************************************)
(* Claims about the address manager                                        *)
(***************************************************************************)

SyncReturnedNil == sync.pc = "done" /\ ~sync.err

\* The pair of an interface and a subnet has a target pod address.
Tracked(link, subnet) ==
    \E t \in interfaceToSubnetMap : t.forwardNodeIfName = link /\ t.subnet = subnet

\* The enhanced addresses of the listed interfaces whose interface and
\* subnet have no target.
UselessRemaining ==
    { <<l, i>> \in ListedLinks \X (1 .. 8) :
        /\ i \in DOMAIN ifAddrs[l]
        /\ checkIfEnhancedAddr(ifAddrs[l][i])
        /\ ~Tracked(l, Network(ifAddrs[l][i])) }

\* C18: after a successful SyncAddresses no enhanced address remains on an
\* untracked interface that is not a pod interface, nor for an untracked
\* subnet on a tracked interface, whatever addresses the kernel started with.
C18_NoUselessEnhancedLeft == SyncReturnedNil => UselessRemaining = {}

\* An address without the marking of the enhanced addresses.
ManualMarked(addr) == ~(addr.noPrefixRoute /\ addr.scope = "link")

\* The manual addresses of an address list, in the list's order.
Manuals(addrList) == SelectSeq(addrList, ManualMarked)

\* The interface has a manual address keyed by the subnet, that is, one
\* whose own network is the subnet.
HasManualIn(addrList, subnet) ==
    \E i \in DOMAIN addrList : ManualMarked(addrList[i]) /\ Network(addrList[i]) = subnet

EnhancedIn(addrList, subnet) ==
    { addrList[i] : i \in { k \in DOMAIN addrList :
                              ~ManualMarked(addrList[k]) /\ Network(addrList[k]) = subnet } }

\* The tracked entry t has its interface, no manual address in its subnet,
\* and e as the one enhanced address of the subnet, other than the pod's.
ExistingDiffers(addrLists, t, e) ==
    /\ t.forwardNodeIfName \in HostLinks
    /\ ~HasManualIn(addrLists[t.forwardNodeIfName], t.subnet)
    /\ EnhancedIn(addrLists[t.forwardNodeIfName], t.subnet) = {e}
    /\ e.ip # t.podIP

\* The step is SyncAddresses dealing with the tracked entry t.
EnsureStepOn(t) == sync.pc = "ensure" /\ t \in sync.todo /\ sync'.current = Some(t)

Installed(addrLists, t) ==
    \E i \in DOMAIN addrLists[t.forwardNodeIfName] :
       addrLists[t.forwardNodeIfName][i] = EnhancedAddr(t.podIP, t.subnet.ones)

C20_LookupFailed ==
    /\ sync.pc = "done"
    /\ sync.err
    /\ ~sync.failed
    /\ sync.answer = "error"
    /\ ifAddrs = sync.startAddrs

\* C32: a SyncAddresses call that follows a call which returned nil, with the
\* same tracked map and the same owners, adds no address and deletes no
\* address, whatever addresses the kernel held before the first call.
C32_SecondCallChangesNothing == [][sync.repeat => ifAddrs' = ifAddrs]_vars

(***************************************************************************)
(* ResetInfos and TryAddPodInfo                                            *)
(***************************************************************************)

\* ResetInfos: a fresh, empty map.
ResetInfos == {}

\* A TryAddPodInfo whose later offer replaces the pod address of the pair.
TryAddPodInfoLastWins(tracked, forwardNodeIfName, subnet, podIP) ==
    { t \in tracked : ~(t.forwardNodeIfName = forwardNodeIfName /\ t.subnet = subnet) }
        \cup { TrackedEntry(forwardNodeIfName, subnet, podIP) }

\* TryAddPodInfo: "we only need one local pod ip for every subnet".
TryAddPodInfo(tracked, forwardNodeIfName, subnet, podIP) ==
    IF \E t \in tracked : t.forwardNodeIfName = forwardNodeIfName /\ t.subnet = subnet
    THEN tracked
    ELSE tracked \cup { TrackedEntry(forwardNodeIfName, subnet, podIP) }

MaxInfoCalls == 4

\* The pod addresses offered for a subnet.
PodIPs(subnet) == IF subnet = SubnetCidr(1) THEN {A5, A6} ELSE {B5, B6}

\* A freshly created manager, CreateAddrManager; no other component runs.
InitTrack ==
    /\ IdleRange
    /\ cidr = [ip |-> 0, ones |-> 0]
    /\ includedRanges = <<>>
    /\ gateway = Nil
    /\ excludeIPs = <<>>
    /\ findResult = NoResult
    /\ rules = <<>>
    /\ routes = {}
    /\ addrs = {}
    /\ prioResult = NoPriority
    /\ cfg = <<>>
    /\ proc = <<>>
    /\ calls = 0
    /\ failures = 0
    /\ parallel = FALSE
    /\ lastOk = 0
    /\ IdleAddr
    /\ IdleRc
    /\ IdleRest

\* What a call on the tracked map leaves alone.
TrackFrame ==
    /\ UNCHANGED <<ifAddrs, owners, sync, restVars>>
    /\ UNCHANGED managerVars
    /\ UNCHANGED kernelVars
    /\ UNCHANGED calcVars
    /\ UNCHANGED prioResult

CallResetInfos ==
    /\ Len(infoCalls) < MaxInfoCalls
    /\ interfaceToSubnetMap' = ResetInfos
    /\ infoCalls' = Append(infoCalls, Nil)
    /\ TrackFrame

CallTryAddPodInfo ==
    /\ Len(infoCalls) < MaxInfoCalls
    /\ \E forwardNodeIfName \in {"eth0", "eth1"}, n \in Subnets :
          \E podIP \in PodIPs(SubnetCidr(n)) :
             /\ interfaceToSubnetMap' =
                   TryAddPodInfo(interfaceToSubnetMap, forwardNodeIfName, SubnetCidr(n), podIP)
             /\ infoCalls' =
                   Append(infoCalls, Some(TrackedEntry(forwardNodeIfName, SubnetCidr(n), podIP)))
    /\ TrackFrame

NextTrack ==
    \/ CallResetInfos
    \/ CallTryAddPodInfo

SpecTrack == InitTrack /\ [][NextTrack]_vars

\* The place in the calls of the last ResetInfos, 0 when there was none.
LastReset ==
    IF \E i \in DOMAIN infoCalls : infoCalls[i] = Nil
    THEN CHOOSE i \in DOMAIN infoCalls :
            infoCalls[i] = Nil /\ \A k \in DOMAIN infoCalls : infoCalls[k] = Nil => k <= i
    ELSE 0

SamePair(a, b) == a.forwardNodeIfName = b.forwardNodeIfName /\ a.subnet = b.subnet

\* The offers since the last ResetInfos that were the first for their pair.
FirstOffers ==
    { infoCalls[i][1] :
        i \in { k \in DOMAIN infoCalls :
                  /\ k > LastReset
                  /\ \A j \in (LastReset + 1) .. (k - 1) :
                        ~SamePair(infoCalls[j][1], infoCalls[k][1]) } }

\* C21: after any sequence of ResetInfos and TryAddPodInfo calls the tracked
\* map holds exactly the pairs offered since the last ResetInfos, each with
\* the first address offered for it since then.
C21_FirstOfferWins == interfaceToSubnetMap = FirstOffers

\* A pair was offered, forgotten by a ResetInfos, and another pair was then
\* offered twice, with two addresses.
C21_Witness ==
    /\ LastReset > 1
    /\ \E i, k \in DOMAIN infoCalls :
          /\ LastReset < i
          /\ i < k
          /\ SamePair(infoCalls[i][1], infoCalls[k][1])
          /\ infoCalls[i][1].podIP # infoCalls[k][1].podIP
          /\ infoCalls[1] # Nil
          /\ ~SamePair(infoCalls[1][1], infoCalls[i][1])

\* C22: every address SyncAddresses asks the kernel to install has link
\* scope and the no-prefix-route flag, the pod address of a tracked entry of
\* its interface as IP and the mask of that entry's subnet as mask.
C22_RequestsAreEnhanced ==
    \A q \in sync.requested :
       /\ q.addr.scope = "link"
       /\ q.addr.noPrefixRoute
       /\ \E t \in interfaceToSubnetMap :
             /\ t.forwardNodeIfName = q.link
             /\ t.podIP = q.addr.ip
             /\ t.subnet.ones = q.addr.ones

\* SyncAddresses returned nil after asking for the addresses of two tracked
\* entries.
C22_Witness ==
    /\ SyncReturnedNil
    /\ \E q, r \in sync.requested : q # r

(***************************************************************************)
(* More claims about the policy-route manager                              *)
(***************************************************************************)

DeleteSteps == {"vxDelete", "natDelete", "exDelete"}

\* Another actor on the node removes a route a pass has listed for deletion
\* and not deleted yet.
ExternalRouteDel ==
    /\ \E n \in Subnets :
          /\ proc[n].pc \in DeleteSteps
          /\ \E r \in proc[n].routeList \cap routes : routes' = routes \ {r}
    /\ UNCHANGED <<proc, lastOk>>
    /\ RoutesOnly

NextRace ==
    \/ NextManager
    \/ ExternalRouteDel

\* The passes one at a time, on a node where routes can go away under them.
SpecRace == InitSeq /\ [][NextRace]_vars

\* C23: a pass that is about to delete a listed route does not return an
\* error because the route is gone: unless the kernel call fails for
\* another reason, no delete step ends the pass with an error.
C23_DeleteToleratesAbsence ==
    [][\A n \in Subnets :
          (proc[n].pc \in DeleteSteps /\ proc'[n].pc = "done" /\ proc'[n].err)
             => proc'[n].failed]_vars

NatVxlan(n) == cfg[n].mode = "vxlan" /\ cfg[n].autoNatOutgoing

\* C25: when a pass for a vxlan subnet with autoNatOutgoing has returned
\* nil, the table's routes other than throw routes are exactly one route
\* per underlay subnet, via the forwarding interface, and its throw routes
\* are exactly the exclude blocks, whatever the table held before.
C25_NatTableExact ==
    \A n \in Subnets :
       (JustReturned(n) /\ NatVxlan(n)) =>
          RoutesOfTable(routes, proc[n].table) = ExpectedRoutes(n, proc[n])

\* A pass for a vxlan subnet with autoNatOutgoing and an underlay subnet
\* has returned nil; the table it found held routes that do not belong
\* there.
C25_Witness ==
    \E n \in Subnets :
       /\ JustReturned(n)
       /\ NatVxlan(n)
       /\ cfg[n].underlaySubnetInfoMap # {}
       /\ RoutesOfTable(proc[n].startRoutes, proc[n].table) \ ExpectedRoutes(n, proc[n]) # {}

\* The gateway handed to ensureRoutesForVlanSubnet is not inside cidr.
GatewayOutside(n) ==
    cfg[n].gateway = Nil \/ ~Contains(SubnetCidr(n), cfg[n].gateway[1])

\* A local address without the no-prefix-route flag lies inside cidr.
Attached(n) == \E a \in addrs : Contains(SubnetCidr(n), a.ip) /\ ~a.noPrefixRoute

\* The main table's default route goes through the forwarding interface
\* with a gateway other than the subnet's.
ConflictingDefault(n, rts) ==
    \E r \in rts :
       /\ r.table = MainTableNum
       /\ r.dst = Nil
       /\ r.link = Some(cfg[n].forwardNodeIfName)
       /\ r.gw # Nil
       /\ r.gw # cfg[n].gateway

\* The main table has no route to cidr through the forwarding interface.
NoDirectRoute(n, rts) ==
    ~ \E r \in rts :
         /\ r.table = MainTableNum
         /\ r.link = Some(cfg[n].forwardNodeIfName)
         /\ r.dst = Some(SubnetCidr(n))

\* The input ensureRoutesForVlanSubnet rejects.
VlanRejected(n, rts) ==
    /\ cfg[n].mode = "vlan"
    /\ \/ GatewayOutside(n)
       \/ Attached(n) /\ (ConflictingDefault(n, rts) \/ NoDirectRoute(n, rts))

\* C26: a pass for a vlan subnet that got as far as ensureRoutesForVlanSubnet
\* with a gateway outside cidr or, for a locally attached subnet, with a
\* default route of the forwarding interface that has another gateway or
\* with no direct route for cidr on the forwarding interface, returns an
\* error and has replaced or deleted no route.
C26_VlanRejectChangesNothing ==
    [][\A n \in Subnets :
          (/\ proc[n].pc # "done"
           /\ proc'[n].pc = "done"
           /\ proc[n].forwardLink # Nil
           /\ VlanRejected(n, proc[n].startRoutes))
             => /\ proc'[n].err
                /\ routes' = proc[n].startRoutes]_vars

\* A pass was rejected, with no kernel failure, for the gateway, and a pass
\* for a locally attached subnet was rejected for the routes of the main
\* table.
C26_Witness ==
    \E n \in Subnets :
       /\ proc[n].pc = "done"
       /\ proc[n].err
       /\ ~proc[n].failed
       /\ proc[n].forwardLink # Nil
       /\ cfg[n].mode = "vlan"
       /\ ~GatewayOutside(n)
       /\ Attached(n)
       /\ ConflictingDefault(n, routes) \/ NoDirectRoute(n, routes)
       /\ routes = proc[n].startRoutes

\* C27: when a pass fails after writing routes into a table it allocated
\* and before installing the rule, the subnet's next successful pass leaves
\* no table holding routes of the subnet without a rule of the subnet
\* pointing at it, and ends where a single successful pass would have: with
\* the routes in that table.
C27_Reconverges ==
    \A n \in Subnets :
       (JustReturned(n) /\ proc[n].orphan # 0) =>
          /\ RoutesOfTable(routes, proc[n].orphan) # {} => HasRule(n, proc[n].orphan)
          /\ proc[n].table = proc[n].orphan

\* A rule with subnet 2's CIDR as source that the administrator installed:
\* "from 10.0.2.0/24 lookup main".
ForeignRule == Rule(Some(SubnetCidr(2)), MainTableNum, 2, "none")

\* The node of InitSeq with the administrator's rule among its rules.
InitForeign ==
    /\ IdleRange
    /\ IdleAddr
    /\ IdleRc
    /\ IdleRest
    /\ cidr = [ip |-> 0, ones |-> 0]
    /\ includedRanges = <<>>
    /\ gateway = Nil
    /\ excludeIPs = <<>>
    /\ findResult = NoResult
    /\ prioResult = NoPriority
    /\ parallel = FALSE
    /\ calls = 0
    /\ failures = 0
    /\ lastOk = 0
    /\ proc = [n \in Subnets |-> IdleProc]
    /\ cfg \in [Subnets -> UNION { SubnetInfos(n) : n \in Subnets }]
    /\ \A n \in Subnets : cfg[n] \in SubnetInfos(n)
    /\ \E env \in NodeEnvs, old \in BOOLEAN, stale \in BOOLEAN :
          /\ (cfg[1].mode # "vlan" => env = PlainEnv)
          /\ addrs = env.addrs
          /\ rules = RuleAdd(IF old THEN RuleAdd(BaseRules, OldRule) ELSE BaseRules, ForeignRule)
          /\ routes = env.main \cup (IF old THEN OldRoutes ELSE {})
                               \cup (IF stale THEN StaleRoutes ELSE {})

SpecForeign == InitForeign /\ [][NextManager]_vars

InPool(table) == table >= MinRouteTableNum /\ table < MaxRouteTableNum

\* C28: every route a pass writes goes into a table of the pool
\* [10000, 40000), whatever rules the kernel had, a rule with the subnet's
\* CIDR as source that points outside the pool included.
C28_WritesOnlyPoolTables ==
    [][\A r \in routes' \ routes : InPool(r.table)]_vars

\* The priorities of the kernel's rules.
UsedPrefs == { rules[i].pref : i \in DOMAIN rules }

\* The priority of the node-local rule, the highest when several rules
\* point at table 255 and 0 when none does.
NodeLocalPref ==
    LET prefs == { rules[i].pref : i \in { k \in DOMAIN rules : rules[k].table = NodeLocalTableNum } }
    IN  IF prefs = {} THEN 0 ELSE CHOOSE p \in prefs : \A q \in prefs : q <= p

\* C29: the priority findHighestUnusedRulePriority returns is the smallest
\* priority of 0..32767 that is greater than the node-local rule's and is
\* not the priority of a rule of the kernel (where a rule listed with
\* priority -1 has priority 0); it is no rule's priority and it is not 0.
C29_NextUnusedPriority ==
    (prioResult.called /\ prioResult.ok) =>
        /\ prioResult.priority \in 0..MaxRulePriority
        /\ prioResult.priority > NodeLocalPref
        /\ prioResult.priority \notin UsedPrefs
        /\ \A q \in (NodeLocalPref + 1)..(prioResult.priority - 1) : q \in UsedPrefs
        /\ prioResult.priority # 0

\* The node-local rule has priority 0 and is listed with -1, priorities 1
\* and 2 are taken, and 3 was returned.
C29_Witness ==
    /\ prioResult.called /\ prioResult.ok
    /\ prioResult.priority = 3
    /\ \E i \in DOMAIN rules :
          /\ rules[i].table = NodeLocalTableNum
          /\ rules[i].pref = 0
          /\ RuleList(rules)[i].Priority = 0 - 1

\* Subnet n's pass stands inside ensureRoutesForVlanSubnet or
\* ensureRoutesForBGPSubnet.
InVlanOrBgp(n) ==
    proc[n].pc \in {"vlAddrs", "vlDefaultRoute", "vlDirectList", "vlDirect", "vlDefault",
                    "bgpDefault"}

\* The routes of subnet n's table to another destination than the subnet's
\* cidr and the default destination.
OtherRoutes(rts, n) ==
    { r \in RoutesOfTable(rts, proc[n].table) : r.dst # Some(SubnetCidr(n)) /\ r.dst # Nil }

\* C35: no step of ensureRoutesForVlanSubnet and ensureRoutesForBGPSubnet
\* deletes a route: every route of the subnet's table to another destination
\* than the subnet's cidr and the default destination is there, unchanged,
\* after the step, and no route of another table changes.
C35_VlanAndBgpDeleteNothing ==
    [][\A n \in Subnets :
          (InVlanOrBgp(n) /\ proc'[n] # proc[n]) =>
              /\ OtherRoutes(routes, n) \subseteq routes'
              /\ \A r \in routes : r.table # proc[n].table => r \in routes']_vars

\* C35's case: subnet 1, now a vlan subnet, has got its two routes in the
\* table an earlier run left, and the throw route and the route to subnet 2
\* of that run are still in the table.
C35_Witness ==
    /\ cfg[1].mode = "vlan"
    /\ Returned(1)
    /\ proc[1].wrote
    /\ proc[1].table = OldTable
    /\ Route(OldTable, Some(ExcludeBlock), "throw", Nil, Nil, "universe", Nil) \in routes
    /\ Route(OldTable, Some(SubnetCidr(2)), "unicast", Some("eth0.vxlan4"), Nil, "universe", Nil)
          \in routes
    /\ Route(OldTable, Nil, "unicast", Some("eth0"), cfg[1].gateway, "universe", Nil) \in routes

\* The same for a bgp subnet.
C35_Bgp ==
    /\ cfg[1].mode = "bgp"
    /\ Returned(1)
    /\ proc[1].wrote
    /\ proc[1].table = OldTable
    /\ OldRoutes \ routes =
          {Route(OldTable, Nil, "unicast", Some("eth0"), Some(ForeignGateway), "universe", Nil)}

(***************************************************************************)
(* Exhaustion of the table pool and of the rule priorities                 *)
(***************************************************************************)

\* findEmptyRouteTable as one call: the lowest table of
\* MinRouteTableNum..MaxRouteTableNum-1 that checkIfRouteTableEmpty finds
\* empty, an error when the loop ends without one.
findEmptyRouteTable(rts) ==
    LET used == { r.table : r \in rts }
        pool == MinRouteTableNum..(MaxRouteTableNum - 1)
    IN  IF \A i \in pool : i \in used
        THEN [ok |-> FALSE, table |-> 0]
        ELSE [ok |-> TRUE,
              table |-> CHOOSE i \in pool :
                           i \notin used /\ MinRouteTableNum..(i - 1) \subseteq used]

\* The whole loop of findEmptyRouteTable in one step.
FindTableAll(n) ==
    /\ proc[n].pc = "findTable"
    /\ LET found == findEmptyRouteTable(routes)
       IN  Step(n, IF found.ok
                   THEN [proc[n] EXCEPT !.table = found.table, !.pc = "link"]
                   ELSE AbortPass(proc[n]))
    /\ ReadOnly

\* A node whose every pool table holds a route of some other program.
FullPool ==
    { Route(t, Nil, "unicast", Some("eth0"), Some(ForeignGateway), "universe", Nil) :
        t \in MinRouteTableNum..(MaxRouteTableNum - 1) }

\* A second rule to the local table, at the last priority.
ExhaustRule == Rule(Nil, NodeLocalTableNum, MaxRulePriority, "none")

\* The kernels of InitSeq, with or without a priority left above the
\* node-local rule's, and a kernel with the pool full, on which one pass runs
\* with no kernel operation failing.
InitExhaust ==
    /\ IdleRange
    /\ IdleAddr
    /\ IdleRc
    /\ IdleRest
    /\ cidr = [ip |-> 0, ones |-> 0]
    /\ includedRanges = <<>>
    /\ gateway = Nil
    /\ excludeIPs = <<>>
    /\ findResult = NoResult
    /\ prioResult = NoPriority
    /\ parallel = FALSE
    /\ lastOk = 0
    /\ proc = [n \in Subnets |-> IdleProc]
    /\ cfg \in [Subnets -> UNION { SubnetInfos(n) : n \in Subnets }]
    /\ \A n \in Subnets : cfg[n] \in SubnetInfos(n)
    /\ \/ \E env \in NodeEnvs, old \in BOOLEAN, exhausted \in BOOLEAN :
             /\ calls = 0
             /\ failures = 0
             /\ (cfg[1].mode # "vlan" => env = PlainEnv)
             /\ addrs = env.addrs
             /\ rules = LET base == IF old THEN RuleAdd(BaseRules, OldRule) ELSE BaseRules
                        IN  IF exhausted THEN RuleAdd(base, ExhaustRule) ELSE base
             /\ routes = env.main \cup (IF old THEN OldRoutes ELSE {})
       \/ /\ calls = MaxCalls - 1
          /\ failures = MaxFailures
          /\ cfg[1].mode # "vlan"
          /\ cfg[2] = cfg[1]
          /\ addrs = PlainEnv.addrs
          /\ rules = BaseRules
          /\ routes = PlainEnv.main \cup FullPool

NextExhaust ==
    \E n \in Subnets :
        \/ Start(n)
        \/ CheckRule(n)
        \/ FindTableAll(n)
        \/ LinkStep(n)
        \/ VxList(n)
        \/ VxDefault(n)
        \/ VxDelete(n)
        \/ NatDelete(n)
        \/ NatReplace(n)
        \/ ExList(n)
        \/ ExDelete(n)
        \/ ExReplace(n)
        \/ VlAddrs(n)
        \/ VlDefaultRoute(n)
        \/ VlDirectList(n)
        \/ VlDirect(n)
        \/ VlDefault(n)
        \/ BgpDefault(n)
        \/ ApCheck(n)
        \/ ApPriority(n)
        \/ ApAdd(n)
        \/ KernelFail(n)

SpecExhaust == InitExhaust /\ [][NextExhaust]_vars

\* Every table of the pool holds a route.
PoolFull(rts) ==
    MinRouteTableNum..(MaxRouteTableNum - 1) \subseteq { r.table : r \in rts }

\* No priority above the node-local rule's, up to MaxRulePriority, is unused.
PriorityExhausted(rls) ==
    LET listed == RuleList(rls)
        used   == { realRulePriority(listed[i].Priority) : i \in DOMAIN listed }
        local  == { i \in DOMAIN listed : listed[i].Table = NodeLocalTableNum }
        last   == IF local = {} THEN 0
                  ELSE realRulePriority(
                         listed[CHOOSE i \in local : \A j \in local : j <= i].Priority)
    IN  (last + 1)..MaxRulePriority \subseteq used

\* The pass of subnet n ends with this step.
PassEnds(n) == proc[n].pc # "done" /\ proc'[n].pc = "done"

\* C30: a pass that needs a new table while every table of the pool holds a
\* route returns an error and leaves rules and routes as it found them; a
\* pass that needs a new rule while no priority above the node-local rule's
\* is unused returns an error and adds no rule.
C30_ExhaustionFailsCleanly ==
    [][\A n \in Subnets :
          PassEnds(n) /\ ~proc[n].hadRule =>
             /\ PoolFull(proc[n].startRoutes) =>
                   /\ proc'[n].err
                   /\ routes' = proc[n].startRoutes
                   /\ rules' = proc[n].startRules
             /\ PriorityExhausted(proc[n].startRules) =>
                   /\ proc'[n].err
                   /\ rules' = proc[n].startRules]_vars

\* A pass that needed a rule has written its routes and then found no
\* priority for the rule, with no kernel operation failing.
C30_Witness ==
    \E n \in Subnets :
        /\ proc[n].pc = "done" /\ proc[n].err /\ ~proc[n].hadRule
        /\ failures = 0
        /\ PriorityExhausted(proc[n].startRules)
        /\ proc[n].wrote
        /\ routes # proc[n].startRoutes
        /\ rules = proc[n].startRules

\* The search of the full pool has ended a pass that needed a table; on that
\* kernel no kernel operation fails.
C30_PoolFull ==
    \E n \in Subnets :
        /\ proc[n].pc = "done" /\ proc[n].err /\ ~proc[n].hadRule
        /\ ~proc[n].wrote
        /\ PoolFull(proc[n].startRoutes)
        /\ routes = proc[n].startRoutes

(***************************************************************************)
(* updateRemoteClusterStatus                                               *)
(***************************************************************************)

\* The controller with its rcMgrMap and the remote clusters its lister
\* returns; nothing else runs.
InitRc ==
    /\ IdleRange
    /\ cidr = [ip |-> 0, ones |-> 0]
    /\ includedRanges = <<>>
    /\ gateway = Nil
    /\ excludeIPs = <<>>
    /\ findResult = NoResult
    /\ rules = <<>>
    /\ routes = {}
    /\ addrs = {}
    /\ prioResult = NoPriority
    /\ cfg = <<>>
    /\ proc = <<>>
    /\ calls = 0
    /\ failures = 0
    /\ parallel = FALSE
    /\ lastOk = 0
    /\ IdleAddr
    /\ IdleRest
    /\ \E listed \in SUBSET Clusters, managed \in SUBSET Clusters :
          \E ready \in SUBSET managed :
             rcStatus = [IdleRcStatus EXCEPT !.listed = listed, !.managed = managed,
                                             !.isReady = [c \in Clusters |-> c \in ready]]

\* What the status update leaves alone.
RcFrame ==
    /\ UNCHANGED <<cfg, proc, failures, parallel, lastOk>>
    /\ UNCHANGED <<ruleResult, webhook, vlanIf>>
    /\ UNCHANGED kernelVars
    /\ UNCHANGED calcVars
    /\ UNCHANGED addrVars
    /\ UNCHANGED prioResult

\* wait.Until calls updateRemoteClusterStatus; remoteClusterLister.List
\* answers or fails.
RcStart ==
    /\ rcStatus.pc \in {"idle", "returned"}
    /\ calls < MaxCalls
    /\ calls' = calls + 1
    /\ \E listOk \in BOOLEAN :
          LET fresh == [IdleRcStatus EXCEPT !.listed = rcStatus.listed,
                                            !.managed = rcStatus.managed,
                                            !.lock = rcStatus.lock,
                                            !.isReady = rcStatus.isReady,
                                            !.enqueued = rcStatus.enqueued]
          IN  rcStatus' = IF listOk
                          THEN [fresh EXCEPT !.pc = "spawn", !.pending = rcStatus.listed]
                          ELSE [fresh EXCEPT !.pc = "returned", !.listFailed = TRUE]
    /\ RcFrame

\* One round of the loop over remoteClusters: a cluster without a manager is
\* skipped, for another wg.Add(1) and the goroutine is started.
RcSpawn ==
    /\ rcStatus.pc = "spawn"
    /\ \E c \in rcStatus.pending :
          rcStatus' = IF c \notin rcStatus.managed
                      THEN [rcStatus EXCEPT !.pending = @ \ {c}]
                      ELSE [rcStatus EXCEPT !.pending = @ \ {c}, !.wg = @ + 1,
                                            !.go[c] = "start"]
    /\ UNCHANGED calls
    /\ RcFrame

\* wg.Wait() returns.
RcWait ==
    /\ rcStatus.pc = "spawn"
    /\ rcStatus.pending = {}
    /\ rcStatus.wg = 0
    /\ rcStatus' = [rcStatus EXCEPT !.pc = "returned"]
    /\ UNCHANGED calls
    /\ RcFrame

\* updateSingleRCStatus: manager.IsReadyLock.Lock()
GoLock(c) ==
    /\ rcStatus.go[c] = "start"
    /\ ~rcStatus.lock[c]
    /\ rcStatus' = [rcStatus EXCEPT !.lock[c] = TRUE, !.go[c] = "check", !.ran = @ \cup {c}]
    /\ UNCHANGED calls
    /\ RcFrame

\* A test that resumes whenever the conditions are ready.
ShouldResumeWhenReady(isReady, newIsReady) == newIsReady

\* "if !manager.IsReady && newIsReady"
ShouldResume(isReady, newIsReady) == ~isReady /\ newIsReady

\* ResumeReconcile: the keys it enqueues, subnet first.
ResumeReconcile == <<"ReconcileSubnet", "ReconcileNode">>

\* CheckCondition panics, or it returns and IsReady(conditions) gives
\* newIsReady; on the way from not ready to ready IsReady is set and
\* ResumeReconcile called.
GoCheck(c) ==
    /\ rcStatus.go[c] = "check"
    /\ \E panics \in BOOLEAN, newIsReady \in BOOLEAN :
          rcStatus' = IF panics
                      THEN [rcStatus EXCEPT !.go[c] = "panic", !.panicked = @ \cup {c}]
                      ELSE IF ShouldResume(rcStatus.isReady[c], newIsReady)
                      THEN [rcStatus EXCEPT !.go[c] = "update",
                                            !.newIsReady[c] = Some(newIsReady),
                                            !.isReady[c] = TRUE,
                                            !.enqueued[c] = @ \o ResumeReconcile]
                      ELSE [rcStatus EXCEPT !.go[c] = "update",
                                            !.newIsReady[c] = Some(newIsReady)]
    /\ UNCHANGED calls
    /\ RcFrame

\* updateLastTransitionTime and UpdateStatus: they return (an error is only
\* logged) or panic.
GoUpdate(c) ==
    /\ rcStatus.go[c] = "update"
    /\ \E panics \in BOOLEAN :
          rcStatus' = IF panics
                      THEN [rcStatus EXCEPT !.go[c] = "panic", !.panicked = @ \cup {c}]
                      ELSE [rcStatus EXCEPT !.go[c] = "defer"]
    /\ UNCHANGED calls
    /\ RcFrame

\* Deferred functions without the recover: a panic ends the goroutine.
AfterDefersNoRecover(g) == IF g = "panic" THEN "crashed" ELSE "returned"

\* The deferred functions have run: updateSingleRCStatus returns, a panic
\* having been recovered and logged.
AfterDefers(g) == "returned"

\* The deferred manager.IsReadyLock.Unlock() and recover().
GoDefers(c) ==
    /\ rcStatus.go[c] \in {"defer", "panic"}
    /\ rcStatus' = [rcStatus EXCEPT !.lock[c] = FALSE, !.go[c] = AfterDefers(@)]
    /\ UNCHANGED calls
    /\ RcFrame

\* wg.Done()
GoDone(c) ==
    /\ rcStatus.go[c] = "returned"
    /\ rcStatus' = [rcStatus EXCEPT !.wg = @ - 1, !.go[c] = "done"]
    /\ UNCHANGED calls
    /\ RcFrame

NextRc ==
    \/ RcStart
    \/ RcSpawn
    \/ RcWait
    \/ \E c \in Clusters :
          \/ GoLock(c)
          \/ GoCheck(c)
          \/ GoUpdate(c)
          \/ GoDefers(c)
          \/ GoDone(c)

\* The goroutines are scheduled and the calls they make come back.
SpecRc == InitRc /\ [][NextRc]_vars /\ WF_vars(NextRc)

\* C24: updateRemoteClusterStatus always returns, and when it does, its
\* wait group is at zero and (unless the listing failed) updateSingleRCStatus
\* has run for every listed cluster that has a manager, has returned and has
\* released the manager's IsReadyLock, whichever of them panicked.
C24_AllUpdatedDespitePanic ==
    /\ [](rcStatus.pc = "returned" =>
            /\ rcStatus.wg = 0
            /\ ~rcStatus.listFailed =>
                  \A c \in rcStatus.listed \cap rcStatus.managed :
                     /\ c \in rcStatus.ran
                     /\ rcStatus.go[c] = "done"
                     /\ ~rcStatus.lock[c])
    /\ (rcStatus.pc = "spawn" ~> rcStatus.pc = "returned")

\* updateRemoteClusterStatus returned after the update of one managed
\* cluster panicked and the update of another did not.
C24_Witness ==
    /\ rcStatus.pc = "returned"
    /\ rcStatus.panicked # {}
    /\ rcStatus.ran \ rcStatus.panicked # {}

\* updateSingleRCStatus for cluster c has got past IsReady(conditions) in
\* this step.
Checked(c) == rcStatus.go[c] = "check" /\ rcStatus'.go[c] = "update"

\* C37: updateSingleRCStatus calls ResumeReconcile, which enqueues the subnet
\* and the node reconcile key, exactly when the manager's IsReady is false
\* and the conditions just computed are ready, and sets IsReady to true in
\* the same step, holding IsReadyLock; when IsReady was true already nothing
\* is enqueued; IsReady never goes back to false, and neither IsReady nor the
\* queues change anywhere else.
C37_ResumeOnBecomingReady ==
    [][\A c \in Clusters :
          /\ Checked(c) =>
                LET newIsReady == rcStatus'.newIsReady[c][1]
                IN  /\ rcStatus.lock[c] /\ rcStatus'.lock[c]
                    /\ (~rcStatus.isReady[c] /\ newIsReady) <=>
                          rcStatus'.enqueued[c] =
                             rcStatus.enqueued[c] \o <<"ReconcileSubnet", "ReconcileNode">>
                    /\ ~(~rcStatus.isReady[c] /\ newIsReady) =>
                          rcStatus'.enqueued[c] = rcStatus.enqueued[c]
                    /\ rcStatus'.isReady[c] = (rcStatus.isReady[c] \/ newIsReady)
          /\ ~Checked(c) =>
                /\ rcStatus'.isReady[c] = rcStatus.isReady[c]
                /\ rcStatus'.enqueued[c] = rcStatus.enqueued[c]
          /\ rcStatus.isReady[c] => rcStatus'.isReady[c]]_vars

\* C37's case: a manager that was not ready has been found ready and its
\* reconciliation resumed once, and a later run that found it ready again
\* has enqueued nothing more.
C37_Witness ==
    \E c \in Clusters :
        /\ calls = 2
        /\ rcStatus.go[c] = "update"
        /\ rcStatus.newIsReady[c] = Some(TRUE)
        /\ rcStatus.isReady[c]
        /\ rcStatus.enqueued[c] = <<"ReconcileSubnet", "ReconcileNode">>

\* A manager that is ready has been found not ready: it stays ready and
\* nothing is enqueued.
C37_StaysReady ==
    \E c \in Clusters :
        /\ rcStatus.go[c] = "update"
        /\ rcStatus.newIsReady[c] = Some(FALSE)
        /\ rcStatus.isReady[c]
        /\ rcStatus.enqueued[c] = <<>>

(***************************************************************************)
(* The validating webhook of RemoteSubnet                                  *)
(***************************************************************************)

MaxCreates == 3

\* The create requests, in the order in which they arrive.
Creates == 1..MaxCreates

\* The ranges of the model, as their cidr.
LocalRange == [ip |-> IPv4(10, 2, 0, 0), ones |-> 24]

EarlierRange == [ip |-> IPv4(10, 4, 0, 0), ones |-> 24]

WebhookRanges ==
    { [ip |-> IPv4(10, 1, 0, 0), ones |-> 16], [ip |-> IPv4(10, 1, 1, 0), ones |-> 24],
      LocalRange, [ip |-> IPv4(10, 4, 0, 0), ones |-> 16] }

\* networkingv1.Intersect: the two ranges have an address in common.
Intersect(a, b) == Contains(a, MaskIP(b.ip, b.ones)) \/ Contains(b, MaskIP(a.ip, a.ones))

RemoteSubnet(name, range) == [name |-> name, range |-> range]

NoRequest == [pc |-> "none", obj |-> <<>>, localSubnetList |-> {}, remoteSubnetList |-> {}]

\* The API server holds the local subnets and perhaps a remote subnet
\* created earlier; no request has arrived.
InitWebhook ==
    /\ IdleAddr
    /\ IdleRc
    /\ IdleRange
    /\ ruleResult = NoLookup
    /\ vlanIf = NoIfName
    /\ rules = <<>>
    /\ routes = {}
    /\ addrs = {}
    /\ prioResult = NoPriority
    /\ cfg = <<>>
    /\ proc = <<>>
    /\ calls = 0
    /\ failures = 0
    /\ parallel = FALSE
    /\ lastOk = 0
    /\ cidr = [ip |-> 0, ones |-> 0]
    /\ includedRanges = <<>>
    /\ gateway = Nil
    /\ excludeIPs = <<>>
    /\ findResult = NoResult
    /\ \E locals \in SUBSET {LocalRange}, stored \in SUBSET {RemoteSubnet(0, EarlierRange)} :
          webhook = [locals |-> locals, stored |-> stored, rsLock |-> Nil,
                     req |-> [i \in Creates |-> NoRequest]]

WebhookFrame ==
    /\ UNCHANGED calcVars
    /\ UNCHANGED <<rules, routes, addrs, prioResult>>
    /\ UNCHANGED managerVars
    /\ UNCHANGED addrVars
    /\ UNCHANGED <<rcStatus, ruleResult, vlanIf>>

\* The API server calls RemoteSubnetCreateValidation for a new object:
\* rsLock.Lock().
CreateLock(i) ==
    /\ webhook.req[i].pc = "none"
    /\ \A j \in 1..(i - 1) : webhook.req[j].pc # "none"
    /\ webhook.rsLock = Nil
    /\ \E range \in WebhookRanges :
          webhook' = [webhook EXCEPT !.rsLock = Some(i),
                                     !.req[i].pc = "locked",
                                     !.req[i].obj = Some(RemoteSubnet(i, range))]
    /\ WebhookFrame

\* The response is returned and the deferred rsLock.Unlock() runs.
Respond(w, i, response) == [w EXCEPT !.rsLock = Nil, !.req[i].pc = response]

\* Decode, the list of the local subnets and the loop over it.
CheckLocal(i) ==
    /\ webhook.req[i].pc = "locked"
    /\ \E decodeOk \in BOOLEAN, listOk \in BOOLEAN :
          LET remoteSubnet == webhook.req[i].obj[1]
              listed == [webhook EXCEPT !.req[i].localSubnetList = webhook.locals]
          IN  webhook' =
                 IF ~decodeOk \/ ~listOk THEN Respond(webhook, i, "errored")
                 ELSE IF \E localSubnet \in webhook.locals :
                            Intersect(remoteSubnet.range, localSubnet)
                 THEN Respond(listed, i, "denied")
                 ELSE [listed EXCEPT !.req[i].pc = "listRemote"]
    /\ WebhookFrame

\* The list of the remote subnets, the loop over it and
\* admission.Allowed("validation pass").
CheckRemote(i) ==
    /\ webhook.req[i].pc = "listRemote"
    /\ \E listOk \in BOOLEAN :
          LET remoteSubnet == webhook.req[i].obj[1]
              listed == [webhook EXCEPT !.req[i].remoteSubnetList = webhook.stored]
          IN  webhook' =
                 IF ~listOk THEN Respond(webhook, i, "errored")
                 ELSE IF \E comparedRemoteCluster \in webhook.stored :
                            Intersect(remoteSubnet.range, comparedRemoteCluster.range)
                 THEN Respond(listed, i, "denied")
                 ELSE Respond(listed, i, "allowed")
    /\ WebhookFrame

\* The API server stores the object of an admitted request.
Store(i) ==
    /\ webhook.req[i].pc = "allowed"
    /\ webhook' = [webhook EXCEPT !.stored = @ \cup {webhook.req[i].obj[1]},
                                  !.req[i].pc = "stored"]
    /\ WebhookFrame

NextWebhook ==
    \E i \in Creates :
        \/ CreateLock(i)
        \/ CheckLocal(i)
        \/ CheckRemote(i)
        \/ Store(i)

SpecWebhook == InitWebhook /\ [][NextWebhook]_vars

Admitted(i) == webhook.req[i].pc \in {"allowed", "stored"}

\* An admitted request's range intersects no subnet and no remote subnet the
\* validation listed, and one validation at most holds rsLock.
AdmittedOnlyDisjoint ==
    /\ \A i \in Creates :
          Admitted(i) =>
             LET remoteSubnet == webhook.req[i].obj[1]
             IN  /\ \A localSubnet \in webhook.req[i].localSubnetList :
                       ~Intersect(remoteSubnet.range, localSubnet)
                 /\ \A compared \in webhook.req[i].remoteSubnetList :
                       ~Intersect(remoteSubnet.range, compared.range)
    /\ \A i, j \in Creates :
          (webhook.req[i].pc \in {"locked", "listRemote"}
              /\ webhook.req[j].pc \in {"locked", "listRemote"}) => i = j

\* C36: a create request is admitted only if its range intersects no listed
\* Subnet and no listed RemoteSubnet, the validations holding rsLock one at a
\* time, and so no two stored RemoteSubnets have intersecting ranges.
C36_StoredDisjoint ==
    /\ AdmittedOnlyDisjoint
    /\ \A a, b \in webhook.stored : a # b => ~Intersect(a.range, b.range)

(***************************************************************************)
(* GenerateVlanNetIfName                                                   *)
(***************************************************************************)

\* The largest vlan id the error message of GenerateVlanNetIfName names.
MaxVlanID == 4094

\* The ids the function is called with: none, every id from below 0 to
\* beyond 4096, and the ends of int32.
VlanIDs ==
    {Nil} \cup { Some(id) : id \in ((0 - 3) .. (MaxVlanID + 5)) \cup {MaxInt32, MinInt32} }

ParentNames == {"eth0", "bond0"}

\* fmt.Sprintf("%s.%v", parentName, id): the name, a dot and the id in
\* decimal, kept as its three parts.
DottedName(parentName, id) == <<parentName, ".", id>>

\* "*vlanID > 4096"
VlanIDTooLarge(id) == id > 4096

GenerateVlanNetIfName(parentName, vlanID) ==
    IF vlanID = Nil THEN [err |-> TRUE, name |-> <<>>]
    ELSE IF VlanIDTooLarge(vlanID[1]) THEN [err |-> TRUE, name |-> <<>>]
    ELSE IF vlanID[1] = 0 THEN [err |-> FALSE, name |-> <<parentName>>]
    ELSE [err |-> FALSE, name |-> DottedName(parentName, vlanID[1])]

InitVlan ==
    /\ CalcIdleKernel
    /\ IdleRange
    /\ cidr = [ip |-> 0, ones |-> 0]
    /\ includedRanges = <<>>
    /\ gateway = Nil
    /\ excludeIPs = <<>>
    /\ findResult = NoResult

\* One call of GenerateVlanNetIfName.
CallGenerateVlanNetIfName ==
    /\ ~vlanIf.called
    /\ \E parentName \in ParentNames, vlanID \in VlanIDs :
          LET res == GenerateVlanNetIfName(parentName, vlanID)
          IN  vlanIf' = [called |-> TRUE, parentName |-> parentName, vlanID |-> vlanID,
                         err |-> res.err, name |-> res.name]
    /\ UNCHANGED calcVars
    /\ UNCHANGED <<rules, routes, addrs, prioResult>>
    /\ UNCHANGED managerVars
    /\ UNCHANGED addrVars
    /\ UNCHANGED <<rcStatus, ruleResult, webhook>>

NextVlan == CallGenerateVlanNetIfName

SpecVlan == InitVlan /\ [][NextVlan]_vars

\* C39: GenerateVlanNetIfName returns an error for no id and for every id
\* outside 0..4094, the parent's name for id 0 and the parent's name, a dot
\* and the id for every other id of 0..4094.
C39_VlanIDRange ==
    vlanIf.called =>
        IF vlanIf.vlanID = Nil \/ vlanIf.vlanID[1] \notin 0..MaxVlanID
        THEN vlanIf.err
        ELSE /\ ~vlanIf.err
             /\ vlanIf.name = IF vlanIf.vlanID[1] = 0
                               THEN <<vlanIf.parentName>>
                               ELSE <<vlanIf.parentName, ".", vlanIf.vlanID[1]>>

====
